---- MODULE Spec2Model ----
(***************************************************************************)
(* Model of the analytics aggregation and AI-chat pipeline of etuh-app.     *)
(*                                                                         *)
(*   Spec          offer_analytics: OfferAnalytics.track_offer_interaction  *)
(*                 and OfferAnalytics.track_conversion, called one after    *)
(*                 the other against a working database.                    *)
(*   SpecBusiness  business_analytics and analytics_events:                 *)
(*                 Analytics.track_event and Analytics.batch_track_events.  *)
(*   SpecSearch    AIChat.search_offers_function over the offers table.     *)
(*   SpecChat      AIChat.process_chat_message: the two model calls and the *)
(*                 search between them.                                     *)
(*   SpecQuota     POST /ai-chat with User.check_ai_chat_limit and          *)
(*                 User.increment_ai_chat_usage on the users table.         *)
(*   SpecRoutes    the tracking requests (POST /analytics/track, POST       *)
(*                 /tarjoukset/<id>/click and /conversion/...) and the      *)
(*                 tracking functions, on a database whose steps may fail.  *)
(*   SpecLifecycle the offer_analytics calls and User.delete_user.          *)
(*   SpecPool      Analytics.batch_track_events_async: the thread pool and  *)
(*                 the database steps of the batches it runs concurrently;  *)
(*                 SpecPoolFair adds that the pool's threads keep running.  *)
(*   SpecRace      OfferAnalytics.track_offer_interaction calls that run at *)
(*                 the same time, one database step after the other.        *)
(*   SpecQuotaRace POST /ai-chat requests of one user that run at the same  *)
(*                 time: the limit check, the chat, the increment.          *)
(***************************************************************************)
EXTENDS Integers, Sequences, FiniteSets

(***************************************************************************)
(* Bounds of the model.                                                    *)
(***************************************************************************)
MaxCalls == 3
MaxDay == 2
MaxEvents == 2
MaxBulk == 10
MaxToolCalls == 2
MaxRequests == 3
MaxOps == 2
MaxBatches == 3
MaxInFlight == 2

(***************************************************************************)
(* Values.  SQL NULL / Python None is 0 for ids and "NULL" for text.        *)
(***************************************************************************)
None == 0
NULL == "NULL"

OfferIds == {1}
UserIds == {1, 2}
Users == {None} \cup UserIds
Days == 1..MaxDay

EventTypes == {"view", "click", "conversion", "search"}
ConversionTypes == {"website", "call", "directions", "email"}

\* users.city : user 1 has a city, user 2 has none
users_city == [u \in UserIds |-> IF u = 1 THEN "Helsinki" ELSE NULL]

VARIABLES
    offer_analytics,   \* the offer_analytics table, rows in insertion order
    today,             \* date.today(), also the day of CURRENT_TIMESTAMP and datetime.now()
    lastCall,          \* the most recent tracking call and what it did
    accepted,          \* per (offer, date, kind): calls the dedup guard let through
    ncalls             \* number of calls made so far

VARIABLES
    offers,              \* ids of the rows of the offers table
    business_analytics,  \* the business_analytics table, rows in insertion order
    analytics_events,    \* the analytics_events table, rows in insertion order
    lastBatch,           \* the most recent batch_track_events call, with what the
                         \* other ways of submitting the same events would have left
    nevents,             \* number of events submitted so far
    lastSearch           \* the most recent search_offers_function call and its result

offerVars == <<offer_analytics, lastCall, accepted, ncalls>>
storeVars == <<offers>>
businessVars == <<business_analytics, analytics_events, lastBatch, nevents>>

searchVars == <<lastSearch>>

VARIABLES
    openai_client,      \* AIChat.openai_client is set (the API key was configured)
    lastChat            \* the last process_chat_message call and what it did

chatVars == <<openai_client, lastChat>>

VARIABLES
    users,              \* ids of the rows of the users table
    ai_chat_usage,      \* users.ai_chat_count and users.ai_chat_date, per user
    chat_limit,         \* ai_model_credentials.chat_limit of the OpenAI row
    lastRequest,        \* the last POST /ai-chat request and what it did
    nrequests           \* number of POST /ai-chat requests made

quotaVars == <<users, ai_chat_usage, chat_limit, lastRequest, nrequests>>

VARIABLES
    lastOp,             \* the last tracking request or call and what it did
    nops                \* number of tracking requests and calls made

routeVars == <<lastOp, nops>>

VARIABLES
    work_queue,         \* ThreadPoolExecutor._work_queue: the batches not yet started
    tasks,              \* per submitted batch: where its batch_track_events is
    submitted,          \* the batch_track_events_async calls made and what they returned
    unique_key,         \* whether business_analytics has UNIQUE (business_id, date)
    initial_rows        \* business_analytics before the first submission

poolVars == <<work_queue, tasks, submitted, unique_key, initial_rows>>

VARIABLES
    track_calls,        \* the track_offer_interaction calls in progress
    offer_unique_key,   \* whether offer_analytics has UNIQUE (offer_id, date)
    requests            \* the POST /ai-chat requests in progress

raceVars == <<track_calls, offer_unique_key, requests>>

vars == <<offerVars, today, storeVars, businessVars, searchVars, chatVars, quotaVars,
          routeVars, poolVars, raceVars>>

(***************************************************************************)
(* offer_analytics rows and the SQL statements used on them.                *)
(***************************************************************************)
CounterFields == {"views", "clicks", "conversions",
                  "conversion_calls", "conversion_directions", "conversion_website"}

\* INSERT ... VALUES (offer_id, today, 0, 0, 0, 0, 0, 0, user_id, user_city)
NewOfferRow(offer_id, day, user_id, user_city) ==
    [offer_id |-> offer_id, date |-> day,
     views |-> 0, clicks |-> 0, conversions |-> 0,
     conversion_calls |-> 0, conversion_directions |-> 0, conversion_website |-> 0,
     user_id |-> user_id, user_city |-> user_city]

\* WHERE offer_id = %s AND date = %s
MatchesOfferDate(r, offer_id, day) == r.offer_id = offer_id /\ r.date = day

\* the rows of (offer_id, date), in table order
RowsOf(tbl, offer_id, day) ==
    SelectSeq(tbl, LAMBDA r : MatchesOfferDate(r, offer_id, day))

\* SELECT id FROM offer_analytics WHERE offer_id = %s AND date = %s ; fetchone()
ExistingRecord(tbl, offer_id, day) ==
    \E i \in 1..Len(tbl) : MatchesOfferDate(tbl[i], offer_id, day)

\* (mutant) the last writer's id replaces the one the row has
CoalesceId_last_writer(a, b) == IF b # None THEN b ELSE a

\* COALESCE(a, b) on ids and on text
CoalesceId(a, b) == IF a # None THEN a ELSE b
CoalesceText(a, b) == IF a # NULL THEN a ELSE b

\* SELECT city FROM users WHERE id = %s ; None when the city is not set
get_user_city(user_id) ==
    IF user_id \in UserIds /\ users_city[user_id] # NULL
    THEN users_city[user_id] ELSE NULL

\* (mutant) the row carries some user, whoever it is
is_user_already_tracked_today_any_user(tbl, offer_id, user_id, event_date) ==
    \E i \in 1..Len(tbl) :
        /\ tbl[i].offer_id = offer_id
        /\ tbl[i].user_id # None
        /\ tbl[i].date = event_date

\* SELECT id FROM offer_analytics WHERE offer_id = %s AND user_id = %s AND date = %s
is_user_already_tracked_today(tbl, offer_id, user_id, event_date) ==
    \E i \in 1..Len(tbl) :
        /\ tbl[i].offer_id = offer_id
        /\ tbl[i].user_id # None /\ tbl[i].user_id = user_id
        /\ tbl[i].date = event_date

\* (mutant) a website conversion is counted in the generic column only
conversion_field_mapping_website_as_generic(conversion_type) ==
    CASE conversion_type = "website" -> "conversions"
      [] conversion_type = "call" -> "conversion_calls"
      [] conversion_type = "directions" -> "conversion_directions"
      [] OTHER -> NULL

conversion_field_mapping(conversion_type) ==
    CASE conversion_type = "website" -> "conversion_website"
      [] conversion_type = "call" -> "conversion_calls"
      [] conversion_type = "directions" -> "conversion_directions"
      [] OTHER -> NULL

\* (mutant) the counter is positive, whoever the row carries
has_user_converted_today_any_user(tbl, offer_id, user_id, conversion_type, event_date) ==
    LET field == conversion_field_mapping(conversion_type) IN
    IF field = NULL THEN FALSE
    ELSE \E i \in 1..Len(tbl) :
            /\ tbl[i].offer_id = offer_id
            /\ tbl[i].date = event_date
            /\ tbl[i][field] > 0

\* SELECT id ... WHERE offer_id = %s AND user_id = %s AND date = %s AND {field} > 0
has_user_converted_today(tbl, offer_id, user_id, conversion_type, event_date) ==
    LET field == conversion_field_mapping(conversion_type) IN
    IF field = NULL THEN FALSE
    ELSE \E i \in 1..Len(tbl) :
            /\ tbl[i].offer_id = offer_id
            /\ tbl[i].user_id # None /\ tbl[i].user_id = user_id
            /\ tbl[i].date = event_date
            /\ tbl[i][field] > 0

\* (mutant) a view is counted as a click
field_mapping_view_as_click(event_type) ==
    CASE event_type = "view" -> "clicks"
      [] event_type = "click" -> "clicks"
      [] event_type = "conversion" -> "conversions"
      [] OTHER -> NULL

field_mapping(event_type) ==
    CASE event_type = "view" -> "views"
      [] event_type = "click" -> "clicks"
      [] event_type = "conversion" -> "conversions"
      [] OTHER -> NULL

\* UPDATE offer_analytics SET {field} = {field} + 1, user_id = COALESCE(user_id, %s),
\*        user_city = COALESCE(user_city, %s) WHERE offer_id = %s AND date = %s
UpdateCounter(tbl, field, user_id, user_city, offer_id, day) ==
    [i \in 1..Len(tbl) |->
        IF MatchesOfferDate(tbl[i], offer_id, day)
        THEN [tbl[i] EXCEPT ![field] = @ + 1,
                            !.user_id = CoalesceId(@, user_id),
                            !.user_city = CoalesceText(@, user_city)]
        ELSE tbl[i]]

\* (mutant) the UPDATE without "conversions = conversions + 1"
UpdateConversion_specific_only(tbl, field, user_id, user_city, offer_id, day) ==
    [i \in 1..Len(tbl) |->
        IF MatchesOfferDate(tbl[i], offer_id, day)
        THEN [tbl[i] EXCEPT ![field] = @ + 1,
                            !.user_id = CoalesceId(@, user_id),
                            !.user_city = CoalesceText(@, user_city)]
        ELSE tbl[i]]

\* the same UPDATE with "conversions = conversions + 1" added
UpdateConversion(tbl, field, user_id, user_city, offer_id, day) ==
    [i \in 1..Len(tbl) |->
        IF MatchesOfferDate(tbl[i], offer_id, day)
        THEN [tbl[i] EXCEPT ![field] = @ + 1,
                            !.conversions = @ + 1,
                            !.user_id = CoalesceId(@, user_id),
                            !.user_city = CoalesceText(@, user_city)]
        ELSE tbl[i]]

\* "check if record exists ... create new record with default values"
EnsureOfferRow(tbl, offer_id, day, user_id, user_city) ==
    IF ExistingRecord(tbl, offer_id, day) THEN tbl
    ELSE Append(tbl, NewOfferRow(offer_id, day, user_id, user_city))

\* (mutant) the duplicate check looks at the kind: only a counted kind of
\* the same column makes a duplicate
track_offer_interaction_dedup_by_kind(tbl, day, offer_id, user_id, event_type) ==
    LET user_city == IF user_id # None THEN get_user_city(user_id) ELSE NULL
        field == field_mapping(event_type)
        ensured == EnsureOfferRow(tbl, offer_id, day, user_id, user_city)
    IN  IF user_id # None /\ field # NULL
           /\ is_user_already_tracked_today(tbl, offer_id, user_id, day)
           /\ \E i \in 1..Len(tbl) : MatchesOfferDate(tbl[i], offer_id, day)
                                        /\ tbl[i][field] > 0
        THEN [table |-> tbl, ret |-> TRUE, skipped |-> TRUE]
        ELSE IF field = NULL
        THEN [table |-> ensured, ret |-> FALSE, skipped |-> FALSE]
        ELSE [table |-> UpdateCounter(ensured, field, user_id, user_city, offer_id, day),
              ret |-> TRUE, skipped |-> FALSE]

(***************************************************************************)
(* OfferAnalytics.track_offer_interaction: the table it leaves, what it     *)
(* returns and whether it took the "already tracked - skipping" return.     *)
(***************************************************************************)
track_offer_interaction(tbl, day, offer_id, user_id, event_type) ==
    LET user_city == IF user_id # None THEN get_user_city(user_id) ELSE NULL
        field == field_mapping(event_type)
        ensured == EnsureOfferRow(tbl, offer_id, day, user_id, user_city)
    IN  IF user_id # None /\ is_user_already_tracked_today(tbl, offer_id, user_id, day)
        THEN [table |-> tbl, ret |-> TRUE, skipped |-> TRUE]
        ELSE IF field = NULL
        THEN [table |-> ensured, ret |-> FALSE, skipped |-> FALSE]
        ELSE [table |-> UpdateCounter(ensured, field, user_id, user_city, offer_id, day),
              ret |-> TRUE, skipped |-> FALSE]

(***************************************************************************)
(* OfferAnalytics.track_conversion                                          *)
(***************************************************************************)
track_conversion(tbl, day, offer_id, conversion_type, user_id) ==
    LET user_city == IF user_id # None THEN get_user_city(user_id) ELSE NULL
        field == conversion_field_mapping(conversion_type)
        ensured == EnsureOfferRow(tbl, offer_id, day, user_id, user_city)
    IN  IF user_id # None
           /\ has_user_converted_today(tbl, offer_id, user_id, conversion_type, day)
        THEN [table |-> tbl, ret |-> TRUE, skipped |-> TRUE]
        ELSE IF field = NULL
        THEN [table |-> ensured, ret |-> FALSE, skipped |-> FALSE]
        ELSE [table |-> UpdateConversion(ensured, field, user_id, user_city, offer_id, day),
              ret |-> TRUE, skipped |-> FALSE]

(***************************************************************************)
(* Bookkeeping about calls (not program state).                            *)
(***************************************************************************)
NoCall == [op |-> "none"]

\* is this call the same request as the one recorded in last ?
SameRequest(last, op, offer_id, user_id, kind, day) ==
    /\ last.op = op
    /\ last.offer_id = offer_id /\ last.user_id = user_id
    /\ last.kind = kind /\ last.date = day

\* repeated: the call repeats the previous request; before_first: the rows of
\* (offer, date) before the first of the two
CallRecord(last, op, offer_id, user_id, kind, day, tbl, res) ==
    LET rep == SameRequest(last, op, offer_id, user_id, kind, day) IN
    [op |-> op, offer_id |-> offer_id, user_id |-> user_id, kind |-> kind,
     date |-> day, ret |-> res.ret, skipped |-> res.skipped,
     before |-> RowsOf(tbl, offer_id, day),
     after |-> RowsOf(res.table, offer_id, day),
     repeated |-> rep,
     before_first |-> IF rep THEN last.before ELSE RowsOf(tbl, offer_id, day)]

AcceptedKinds == {"view", "click", "conversion", "website", "call", "directions"}

CountAccepted(acc, offer_id, day, kind, res) ==
    IF ~res.skipped /\ kind \in AcceptedKinds
    THEN [acc EXCEPT ![<<offer_id, day>>][kind] = @ + 1]
    ELSE acc

\* the value of a counter of (offer, date): the sum over its rows
RECURSIVE SumField(_, _)
SumField(rows, field) ==
    IF rows = <<>> THEN 0 ELSE Head(rows)[field] + SumField(Tail(rows), field)

Counter(tbl, offer_id, day, field) == SumField(RowsOf(tbl, offer_id, day), field)

(***************************************************************************)
(* Text.  A string is the sequence of its characters; NoText is both the    *)
(* empty string and an absent (None) argument, which Python treats alike    *)
(* in "if city:".                                                           *)
(***************************************************************************)
NoText == <<>>
DQ == "\""

UpperCase == <<"A", "B", "C", "D", "E", "F", "G", "H", "I", "J", "K", "L", "M", "N", "O", "P", "Q", "R", "S", "T", "U", "V", "W", "X", "Y", "Z">>
LowerCase == <<"a", "b", "c", "d", "e", "f", "g", "h", "i", "j", "k", "l", "m", "n", "o", "p", "q", "r", "s", "t", "u", "v", "w", "x", "y", "z">>

LowerChar(c) ==
    IF \E i \in 1..Len(UpperCase) : UpperCase[i] = c
    THEN LowerCase[CHOOSE i \in 1..Len(UpperCase) : UpperCase[i] = c]
    ELSE c

\* SQL LOWER(text)
LOWER(str) == [i \in 1..Len(str) |-> LowerChar(str[i])]

\* SQL TRIM(text): leading and trailing spaces removed
RECURSIVE TrimLeft(_)
TrimLeft(str) ==
    IF str # <<>> /\ Head(str) = " " THEN TrimLeft(Tail(str)) ELSE str

RECURSIVE TrimRight(_)
TrimRight(str) ==
    IF str # <<>> /\ str[Len(str)] = " "
    THEN TrimRight(SubSeq(str, 1, Len(str) - 1)) ELSE str

TRIM(str) == TrimRight(TrimLeft(str))

\* the literal lit occurs in str at position i
OccursAt(str, lit, i) ==
    /\ i >= 1 /\ i + Len(lit) - 1 <= Len(str)
    /\ \A k \in 1..Len(lit) : str[i + k - 1] = lit[k]

\* str[i..j] is white space (the regular expression \s*)
AllSpaces(str, i, j) == \A k \in i..j : str[k] = " "

\* str ~ (lit1 .* lit2 .* ...): the literals occur in str in this order
RECURSIVE MatchesInOrder(_, _, _)
MatchesInOrder(str, lits, from) ==
    IF lits = <<>> THEN TRUE
    ELSE \E i \in from..(Len(str) + 1) :
            /\ OccursAt(str, Head(lits), i)
            /\ MatchesInOrder(str, Tail(lits), i + Len(Head(lits)))

\* str ~ ('(^|,)\s*' || lit || '\s*(,|$)')
MatchesListElement(str, lit) ==
    \E a \in 0..Len(str) :
        /\ (a = 0 \/ str[a] = ",")
        /\ \E i \in (a + 1)..(Len(str) + 1) :
              /\ AllSpaces(str, a + 1, i - 1)
              /\ OccursAt(str, lit, i)
              /\ \E b \in (i + Len(lit))..(Len(str) + 1) :
                    /\ AllSpaces(str, i + Len(lit), b - 1)
                    /\ (b = Len(str) + 1 \/ str[b] = ",")

\* LOWER(text) LIKE LOWER('%' || lit || '%')
Like(str, lit) == \E i \in 1..(Len(str) + 1) : OccursAt(LOWER(str), LOWER(lit), i)

KokoMaa == <<"k", "o", "k", "o", " ", "m", "a", "a">>

(***************************************************************************)
(* The offers table (read-only here).  Offers 1..8 are named offers, the    *)
(* offers above BulkBase are bulk offers: approved, nationwide, no expiry.  *)
(* UnknownOffer is the id of no offer.  created_at grows with the id.       *)
(***************************************************************************)
NamedIds == 1..8
BulkBase == 100
BulkIds == (BulkBase + 1)..(BulkBase + MaxBulk)
CatalogueIds == NamedIds \cup BulkIds
UnknownOffer == 99

offer_business_id(id) == IF id \in {1, 2, 7} THEN 1 ELSE IF id \in NamedIds THEN 2 ELSE 3

offer_status(id) == IF id = 6 THEN "pending" ELSE "approved"

\* the day the offer expires, None for no expiry
offer_expires_at(id) == IF id = 7 THEN 1 ELSE IF id = 8 THEN 2 ELSE None

offer_is_premium(id) == id \in {3, 8} \/ (id \in BulkIds /\ id % 2 = 0)

offer_created_at(id) == id

offer_city(id) ==
    CASE id = 1 -> <<"H", "e", "l", "s", "i", "n", "k", "i">>
      [] id = 2 -> KokoMaa
      [] id = 3 -> <<"[", "\"", "E", "s", "p", "o", "o", "\"", ",", "\"", "A", "u", "r", "a", "\"", ",", "\"", "H", "e", "l", "s", "i", "n", "k", "i", "\"", "]">>
      [] id = 4 -> <<"E", "s", "p", "o", "o", ",", "A", "u", "r", "a", ",", "H", "e", "l", "s", "i", "n", "k", "i">>
      [] id = 5 -> <<"[", "\"", "I", "i", "s", "a", "l", "m", "i", "\"", "]">>
      [] id = 6 -> <<"H", "e", "l", "s", "i", "n", "k", "i">>
      [] id = 7 -> <<" ", "K", "o", "k", "o", " ", "M", "a", "a", " ">>
      [] id = 8 -> <<"E", "s", "p", "o", "o", ",", " ", "A", "u", "r", "a">>
      [] OTHER -> KokoMaa

offer_category(id) ==
    IF id \in {1, 2, 5} THEN <<"F", "o", "o", "d">> ELSE <<"M", "u", "o", "t", "i">>

offer_title(id) ==
    IF id \in {1, 3, 7} THEN <<"P", "i", "z", "z", "a">> ELSE <<"K", "a", "h", "v", "i">>

\* offers.description and offers.keywords
offer_description(id) == IF id = 4 THEN <<"p", "i", "z", "z", "a">> ELSE NoText
offer_keywords(id) == IF id = 2 THEN <<"p", "i", "z", "z", "a", "t">> ELSE NoText

\* businesses of the offers that events refer to
TrackedOfferIds == {1, 2, 3}
BusinessIds == {offer_business_id(id) : id \in TrackedOfferIds}

InitStore ==
    /\ offers = NamedIds

(***************************************************************************)
(* analytics_events and business_analytics.                                 *)
(***************************************************************************)
\* what an event dict carries that the aggregation reads
EventOfferIds == {None} \cup TrackedOfferIds \cup {UnknownOffer}
Events == [event_type : EventTypes, offer_id : EventOfferIds]

\* analytics_events.offer_id INTEGER REFERENCES offers(id)
ViolatesForeignKey(stored, event) ==
    event.offer_id # None /\ event.offer_id \notin stored

\* INSERT INTO business_analytics (business_id, date, total_views, total_clicks,
\*   total_conversions, total_spent, active_offers, created_at)
NewBusinessRow(business_id, day, views, clicks, conversions) ==
    [business_id |-> business_id, date |-> day,
     total_views |-> views, total_clicks |-> clicks, total_conversions |-> conversions,
     total_spent |-> 0, active_offers |-> 0,
     conversion_calls |-> 0, conversion_directions |-> 0, conversion_website |-> 0]

\* WHERE business_id = %s AND date = %s
MatchesBusinessDate(r, business_id, day) == r.business_id = business_id /\ r.date = day

ExistingBusinessRecord(tbl, business_id, day) ==
    \E i \in 1..Len(tbl) : MatchesBusinessDate(tbl[i], business_id, day)

\* SELECT COUNT(*) FROM offers WHERE business_id = %s AND status = 'approved'
\*   AND (expires_at IS NULL OR expires_at > CURRENT_TIMESTAMP)
ActiveOffers(stored, t, business_id) ==
    Cardinality({id \in stored :
        /\ offer_business_id(id) = business_id
        /\ offer_status(id) = "approved"
        /\ (offer_expires_at(id) = None \/ offer_expires_at(id) > t)})

business_field_mapping(event_type) ==
    CASE event_type = "view" -> "total_views"
      [] event_type = "click" -> "total_clicks"
      [] event_type = "conversion" -> "total_conversions"
      [] OTHER -> NULL

(***************************************************************************)
(* Analytics._push_to_business_analytics                                    *)
(***************************************************************************)
push_to_business_analytics(tbl, stored, t, event_type, offer_id, event_date) ==
    IF offer_id \notin stored THEN tbl
    ELSE
    LET business_id == offer_business_id(offer_id)
        ensured == IF ExistingBusinessRecord(tbl, business_id, event_date) THEN tbl
                   ELSE Append(tbl, NewBusinessRow(business_id, event_date, 0, 0, 0))
        field == business_field_mapping(event_type)
    IN  IF field = NULL THEN ensured
        ELSE [i \in 1..Len(ensured) |->
                IF MatchesBusinessDate(ensured[i], business_id, event_date)
                THEN [ensured[i] EXCEPT ![field] = @ + 1,
                                        !.active_offers = ActiveOffers(stored, t, business_id)]
                ELSE ensured[i]]

(***************************************************************************)
(* Analytics.track_event: the two tables it leaves.                         *)
(***************************************************************************)
track_event(db, stored, t, event, event_date) ==
    IF ViolatesForeignKey(stored, event)
    THEN db   \* the INSERT raises, nothing is committed, the error is swallowed
    ELSE [events |-> Append(db.events, event),
          business |-> IF event.offer_id # None
                       THEN push_to_business_analytics(db.business, stored, t,
                                event.event_type, event.offer_id, event_date)
                       ELSE db.business]

(***************************************************************************)
(* Analytics.batch_track_events and _batch_update_business_analytics        *)
(***************************************************************************)
\* the events the tally counts
Tallied(event) ==
    event.offer_id # None /\ event.event_type \in {"view", "click", "conversion"}

\* first occurrences of a sequence, in order (the key order of a dict)
RECURSIVE KeyOrder(_, _)
KeyOrder(seq, seen) ==
    IF seq = <<>> THEN <<>>
    ELSE IF Head(seq) \in seen THEN KeyOrder(Tail(seq), seen)
    ELSE <<Head(seq)>> \o KeyOrder(Tail(seq), seen \cup {Head(seq)})

\* business_updates[offer_id][event_type]
business_updates(events, offer_id, event_type) ==
    Cardinality({i \in 1..Len(events) :
        Tallied(events[i]) /\ events[i].offer_id = offer_id
                           /\ events[i].event_type = event_type})

\* list(business_updates.keys())
UpdatedOffers(events) ==
    LET tallied == SelectSeq(events, Tallied)
    IN  KeyOrder([i \in 1..Len(tallied) |-> tallied[i].offer_id], {})

RECURSIVE SumOver(_, _, _)
SumOver(ids, events, event_type) ==
    IF ids = <<>> THEN 0
    ELSE business_updates(events, Head(ids), event_type)
           + SumOver(Tail(ids), events, event_type)

\* business_stats[business_id][event_type], over the offers the SELECT found
business_stats(events, stored, business_id, event_type) ==
    LET mine == SelectSeq(UpdatedOffers(events),
                    LAMBDA o : o \in stored /\ offer_business_id(o) = business_id)
    IN  SumOver(mine, events, event_type)

\* business_stats.keys()
UpdatedBusinesses(events, stored) ==
    LET found == SelectSeq(UpdatedOffers(events), LAMBDA o : o \in stored)
    IN  KeyOrder([i \in 1..Len(found) |-> offer_business_id(found[i])], {})

\* "check if exists, then insert or update" for one business
ApplyBusinessStats(tbl, business_id, event_date, views, clicks, conversions) ==
    IF ~(views > 0 \/ clicks > 0 \/ conversions > 0) THEN tbl
    ELSE IF ExistingBusinessRecord(tbl, business_id, event_date)
    THEN [i \in 1..Len(tbl) |->
            IF MatchesBusinessDate(tbl[i], business_id, event_date)
            THEN [tbl[i] EXCEPT !.total_views = @ + views,
                                !.total_clicks = @ + clicks,
                                !.total_conversions = @ + conversions]
            ELSE tbl[i]]
    ELSE Append(tbl, NewBusinessRow(business_id, event_date, views, clicks, conversions))

RECURSIVE ApplyAll(_, _, _, _, _)
ApplyAll(tbl, businesses, events, stored, event_date) ==
    IF businesses = <<>> THEN tbl
    ELSE ApplyAll(ApplyBusinessStats(tbl, Head(businesses), event_date,
                      business_stats(events, stored, Head(businesses), "view"),
                      business_stats(events, stored, Head(businesses), "click"),
                      business_stats(events, stored, Head(businesses), "conversion")),
                  Tail(businesses), events, stored, event_date)

batch_update_business_analytics(tbl, stored, events, event_date) ==
    ApplyAll(tbl, UpdatedBusinesses(events, stored), events, stored, event_date)

batch_track_events(db, stored, events_data, event_date) ==
    IF events_data = <<>> THEN db
    ELSE IF \E i \in 1..Len(events_data) : ViolatesForeignKey(stored, events_data[i])
    THEN db   \* the one INSERT raises, nothing is committed, the error is swallowed
    ELSE [events |-> db.events \o events_data,
          business |-> batch_update_business_analytics(db.business, stored,
                                                       events_data, event_date)]

(***************************************************************************)
(* The same events submitted in other ways, from the same tables.           *)
(***************************************************************************)
\* one track_event call per event, in order
RECURSIVE TrackEach(_, _, _, _, _)
TrackEach(db, stored, t, events, event_date) ==
    IF events = <<>> THEN db
    ELSE TrackEach(track_event(db, stored, t, Head(events), event_date),
                   stored, t, Tail(events), event_date)

\* two batch_track_events calls, the list cut after its first k events
BatchInTwo(db, stored, events, k, event_date) ==
    batch_track_events(
        batch_track_events(db, stored, SubSeq(events, 1, k), event_date),
        stored, SubSeq(events, k + 1, Len(events)), event_date)

NoBatch == [op |-> "none"]

InitBusiness ==
    /\ business_analytics = <<>>
    /\ analytics_events = <<>>
    /\ lastBatch = NoBatch
    /\ nevents = 0

Database == [events |-> analytics_events, business |-> business_analytics]

\* lists of at most n events
EventLists(n) == UNION {[1..m -> Events] : m \in 0..n}

BatchTrackEvents ==
    \E events_data \in EventLists(MaxEvents - nevents) :
    \E k \in 0..Len(events_data) :
        LET db == batch_track_events(Database, offers, events_data, today)
        IN  /\ analytics_events' = db.events
            /\ business_analytics' = db.business
            /\ lastBatch' = [op |-> "batch_track_events", events |-> events_data,
                             date |-> today, split |-> k,
                             single |-> TrackEach(Database, offers, today, events_data, today),
                             halves |-> BatchInTwo(Database, offers, events_data, k, today)]
            /\ nevents' = nevents + Len(events_data)
            /\ UNCHANGED <<offerVars, today, storeVars, searchVars, chatVars, quotaVars, routeVars, poolVars, raceVars>>

TrackEvent ==
    \E event \in Events :
        LET db == track_event(Database, offers, today, event, today)
        IN  /\ nevents < MaxEvents
            /\ analytics_events' = db.events
            /\ business_analytics' = db.business
            /\ lastBatch' = NoBatch
            /\ nevents' = nevents + 1
            /\ UNCHANGED <<offerVars, today, storeVars, searchVars, chatVars, quotaVars, routeVars, poolVars, raceVars>>


(***************************************************************************)
(* AIChat.search_offers_function                                            *)
(***************************************************************************)
SearchLimit == 10

BracketQuote == <<"[", DQ>>
QuoteBracket == <<DQ, "]">>

\* (mutant) the comma-separated-list alternative is missing
city_filter_without_list(stored_city, city) ==
    LET c == LOWER(stored_city)
        q == LOWER(TRIM(city))
    IN  \/ LOWER(TRIM(stored_city)) = KokoMaa
        \/ LOWER(TRIM(stored_city)) = q
        \/ MatchesInOrder(c, <<BracketQuote, KokoMaa, QuoteBracket>>, 1)
        \/ MatchesInOrder(c, <<BracketQuote, q, QuoteBracket>>, 1)
        \/ MatchesInOrder(c, <<<<DQ>>, q, <<DQ>>>>, 1)

\* the city condition of the WHERE clause, on one stored city
city_filter(stored_city, city) ==
    LET c == LOWER(stored_city)
        q == LOWER(TRIM(city))
    IN  \/ LOWER(TRIM(stored_city)) = KokoMaa
        \/ LOWER(TRIM(stored_city)) = q
        \/ MatchesListElement(c, q)
        \/ MatchesInOrder(c, <<BracketQuote, KokoMaa, QuoteBracket>>, 1)
        \/ MatchesInOrder(c, <<BracketQuote, q, QuoteBracket>>, 1)
        \/ MatchesInOrder(c, <<<<DQ>>, q, <<DQ>>>>, 1)

\* o.status = 'approved' AND (o.expires_at IS NULL OR o.expires_at >= %s)
status_filter(id, t) ==
    /\ offer_status(id) = "approved"
    /\ (offer_expires_at(id) = None \/ offer_expires_at(id) >= t)

keywords_filter(id, keywords) ==
    \/ Like(offer_title(id), keywords)
    \/ Like(offer_description(id), keywords)
    \/ Like(offer_keywords(id), keywords)

category_filter(id, category) == LOWER(offer_category(id)) = LOWER(category)

\* the arguments the searches of the model are made with
QueryCities == {NoText, <<"H", "e", "l", "s", "i", "n", "k", "i">>,
                <<"T", "a", "m", "p", "e", "r", "e">>,
                <<"A", "u", "r", "a">>,
                <<"I", "i">>,
                <<" ", "H", "E", "L", "S", "I", "N", "K", "I", " ">>}
QueryKeywords == {NoText, <<"p", "i", "z", "z", "a">>}
QueryCategories == {NoText, <<"F", "O", "O", "D">>}

\* the three conditions, evaluated once for every offer and argument
CityFilterTable ==
    [id \in CatalogueIds |-> [city \in QueryCities |-> city_filter(offer_city(id), city)]]
KeywordsFilterTable ==
    [id \in CatalogueIds |-> [keywords \in QueryKeywords |-> keywords_filter(id, keywords)]]
CategoryFilterTable ==
    [id \in CatalogueIds |-> [category \in QueryCategories |-> category_filter(id, category)]]

\* the rows the WHERE clause selects
where_clause(stored, t, category, keywords, city) ==
    {id \in stored :
        /\ status_filter(id, t)
        /\ (keywords # NoText => KeywordsFilterTable[id][keywords])
        /\ (category # NoText => CategoryFilterTable[id][category])
        /\ (city # NoText => CityFilterTable[id][city])}

\* ORDER BY o.is_premium DESC, o.created_at DESC
ComesBefore(x, y) ==
    \/ offer_is_premium(x) /\ ~offer_is_premium(y)
    \/ /\ offer_is_premium(x) = offer_is_premium(y)
       /\ offer_created_at(x) > offer_created_at(y)

RECURSIVE order_by(_)
order_by(ids) ==
    IF ids = {} THEN <<>>
    ELSE LET first == CHOOSE x \in ids : \A y \in ids \ {x} : ComesBefore(x, y)
         IN  <<first>> \o order_by(ids \ {first})

\* (mutant) the LIMIT is missing
limit_missing(rows) == rows

\* LIMIT 10
limit(rows) == SubSeq(rows, 1, IF Len(rows) < SearchLimit THEN Len(rows) ELSE SearchLimit)

\* the dict built for each row
frontend_offer(id) ==
    [id |-> id, city |-> offer_city(id), isPremium |-> offer_is_premium(id),
     expiresAt |-> offer_expires_at(id), status |-> offer_status(id),
     businessId |-> offer_business_id(id)]

search_offers_function(stored, t, category, keywords, city, active_only) ==
    LET rows == limit(order_by(where_clause(stored, t, category, keywords, city)))
    IN  [i \in 1..Len(rows) |-> frontend_offer(rows[i])]

NoSearch == [op |-> "none"]

SearchOffers ==
    /\ lastSearch = NoSearch
    /\ \E category \in QueryCategories, keywords \in QueryKeywords,
          city \in QueryCities, active_only \in BOOLEAN :
        /\ lastSearch' =
              [op |-> "search_offers_function",
               category |-> category, keywords |-> keywords, city |-> city,
               active_only |-> active_only, now |-> today,
               matched |-> where_clause(offers, today, category, keywords, city),
               result |-> search_offers_function(offers, today, category, keywords,
                                                 city, active_only)]
        /\ UNCHANGED <<offerVars, today, storeVars, businessVars, chatVars, quotaVars, routeVars, poolVars, raceVars>>

(***************************************************************************)
(* AIChat.process_chat_message.  The language model is the environment:    *)
(* each of its two responses is an input of the call.  A prompt is the     *)
(* record of the template it was built from and of the values put in it.   *)
(***************************************************************************)
Languages == {"en", "fi"}

\* user_city of the caller; NoText is None
UserCities == {NoText, <<"H", "e", "l", "s", "i", "n", "k", "i">>, <<"I", "i">>}

\* the city the model may put in the tool arguments; NoText is an absent key
ArgumentCities == {NoText, <<"H", "e", "l", "s", "i", "n", "k", "i">>, <<"T", "a", "m", "p", "e", "r", "e">>}

\* tool_call.function.arguments: a JSON object, or text json.loads rejects
Invalid == [valid |-> FALSE]
FunctionArguments ==
    {Invalid} \cup
    [valid : {TRUE}, category : QueryCategories, keywords : QueryKeywords,
     city : ArgumentCities]

OtherArguments == [valid |-> TRUE, category |-> NoText, keywords |-> NoText, city |-> NoText]

ToolCalls ==
    [name : {"search_offers"}, arguments : FunctionArguments]
        \cup {[name |-> "other", arguments |-> OtherArguments]}

ToolCallLists == UNION {[1..n -> ToolCalls] : n \in 0..MaxToolCalls}

\* what chat.completions.create does the first time: it raises, or returns
\* a message with content only, or a message with tool calls
FirstResponses ==
    {[kind |-> "error", tool_calls |-> <<>>], [kind |-> "message", tool_calls |-> <<>>]}
        \cup {[kind |-> "message", tool_calls |-> calls] : calls \in ToolCallLists \ {<<>>}}

SecondResponses == {"message", "error"}

NotAvailable == [success |-> FALSE,
                 message |-> "AI service not available. Please try again later.",
                 offers |-> <<>>]

\* the result of the except branch
error_result(language) ==
    [success |-> FALSE,
     message |-> IF language = "en"
                 THEN "Sorry, I'm having trouble right now. Please try again later."
                 ELSE "Anteeksi, minulla on teknisiä ongelmia. Yritä myöhemmin uudelleen.",
     offers |-> <<>>]

\* the first prompt: system message in the language, with the user's city
first_prompt(language, user_city) ==
    [template |-> "system", language |-> language, count |-> 0,
     keywords |-> NoText, city |-> user_city]

DefaultKeywords(language) ==
    IF language = "fi" THEN <<"t", "a", "r", "j", "o", "u", "k", "s", "i", "a">> ELSE <<"o", "f", "f", "e", "r", "s">>
DefaultCity(language) ==
    IF language = "fi" THEN <<"k", "ä", "y", "t", "t", "ä", "j", "ä", "n", " ", "k", "a", "u", "p", "u", "n", "g", "i", "s", "s", "a">> ELSE <<"u", "s", "e", "r", " ", "c", "i", "t", "y">>

\* function_args.get(key, default)
GetOr(value, default) == IF value = NoText THEN default ELSE value

\* (mutant) the prompt is the "found" one whatever the search returned
follow_up_prompt_always_found(language, found, function_args) ==
    [template |-> "found", language |-> language, count |-> Len(found),
     keywords |-> NoText, city |-> NoText]

\* follow_up_prompt: "I found {len(offers)} offers. ..." when the search
\* returned offers, "I couldn't find {keywords} offers today in {city} or
\* nationwide offers. Suggest alternative search terms ..." when it did not
follow_up_prompt(language, found, function_args) ==
    IF found # <<>>
    THEN [template |-> "found", language |-> language, count |-> Len(found),
          keywords |-> NoText, city |-> NoText]
    ELSE [template |-> "not_found", language |-> language, count |-> 0,
          keywords |-> GetOr(function_args.keywords, DefaultKeywords(language)),
          city |-> GetOr(function_args.city, DefaultCity(language))]

\* (mutant) the text returned is not the text of the first response
direct_answer_other_text ==
    [success |-> TRUE, message |-> "final_response.content", offers |-> <<>>]

\* without tool calls: ai_message = message.content, offers = []
direct_answer ==
    [success |-> TRUE, message |-> "message.content", offers |-> <<>>]

\* (mutant) the last tool call named search_offers
FirstSearchCall_last(tool_calls) ==
    IF \E i \in 1..Len(tool_calls) : tool_calls[i].name = "search_offers"
    THEN CHOOSE i \in 1..Len(tool_calls) :
            /\ tool_calls[i].name = "search_offers"
            /\ \A j \in (i + 1)..Len(tool_calls) : tool_calls[j].name # "search_offers"
    ELSE 0

\* the first tool call named search_offers, 0 when there is none
FirstSearchCall(tool_calls) ==
    IF \E i \in 1..Len(tool_calls) : tool_calls[i].name = "search_offers"
    THEN CHOOSE i \in 1..Len(tool_calls) :
            /\ tool_calls[i].name = "search_offers"
            /\ \A j \in 1..(i - 1) : tool_calls[j].name # "search_offers"
    ELSE 0

\* if user_city and not function_args.get('city'): function_args['city'] = user_city
with_user_city(function_args, user_city) ==
    IF user_city # NoText /\ function_args.city = NoText
    THEN [function_args EXCEPT !.city = user_city]
    ELSE function_args

\* the whole call: the prompts sent to the model, the searches made and the
\* dict returned
process_chat_message(client, stored, t, user_city, language, first, second) ==
    LET prompt1 == first_prompt(language, user_city)
        i == FirstSearchCall(first.tool_calls)
    IN  IF ~client
        THEN [model_calls |-> <<>>, searches |-> <<>>, result |-> NotAvailable]
        ELSE IF first.kind = "error"
        THEN [model_calls |-> <<prompt1>>, searches |-> <<>>,
              result |-> error_result(language)]
        ELSE IF first.tool_calls = <<>>
        THEN [model_calls |-> <<prompt1>>, searches |-> <<>>,
              result |-> direct_answer]
        ELSE IF i = 0
        \* no tool call is a search: ai_message is never assigned
        THEN [model_calls |-> <<prompt1>>, searches |-> <<>>,
              result |-> error_result(language)]
        ELSE IF ~first.tool_calls[i].arguments.valid
        THEN [model_calls |-> <<prompt1>>, searches |-> <<>>,
              result |-> error_result(language)]
        ELSE
            LET function_args == with_user_city(first.tool_calls[i].arguments, user_city)
                found == search_offers_function(stored, t, function_args.category,
                             function_args.keywords, function_args.city, TRUE)
                prompt2 == follow_up_prompt(language, found, function_args)
                search == [arguments |-> function_args, result |-> found]
            IN  IF second = "error"
                THEN [model_calls |-> <<prompt1, prompt2>>, searches |-> <<search>>,
                      result |-> error_result(language)]
                ELSE [model_calls |-> <<prompt1, prompt2>>, searches |-> <<search>>,
                      result |-> [success |-> TRUE,
                                  message |-> "final_response.content",
                                  offers |-> found]]

NoChat == [op |-> "none"]

ProcessChatMessage ==
    /\ lastChat = NoChat
    /\ \E user_city \in UserCities, language \in Languages,
          first \in FirstResponses, second \in SecondResponses :
        /\ LET done == process_chat_message(openai_client, offers, today, user_city,
                                            language, first, second)
           IN  lastChat' = [op |-> "process_chat_message", user_city |-> user_city,
                            language |-> language, first |-> first, second |-> second,
                            model_calls |-> done.model_calls,
                            searches |-> done.searches, result |-> done.result]
        /\ UNCHANGED <<offerVars, today, storeVars, businessVars, searchVars,
                       openai_client, quotaVars, routeVars, poolVars, raceVars>>

(***************************************************************************)
(* The daily quota: users.ai_chat_count / users.ai_chat_date, and the       *)
(* POST /ai-chat route.  A request is one step; the two responses of the    *)
(* language model are inputs of the request.                                *)
(***************************************************************************)
DefaultChatLimit == 15
MaxMessageLength == 150

\* ai_model_credentials.chat_limit; None is NULL
StoredChatLimits == {None, 1, 2}

\* ALTER TABLE users ADD COLUMN ai_chat_count INTEGER DEFAULT 0,
\*                              ai_chat_date DATE DEFAULT NULL
NewUsage == [count |-> 0, date |-> None]

InitQuota ==
    /\ users = UserIds
    /\ ai_chat_usage = [u \in UserIds |-> NewUsage]
    /\ chat_limit = None
    /\ lastRequest = [op |-> "none"]
    /\ nrequests = 0

\* AIChat.__init__ / get_chat_limit: result[2] or 15, 15 without credentials
get_chat_limit(client, stored_limit) ==
    IF client /\ stored_limit # None THEN stored_limit ELSE DefaultChatLimit

\* (mutant) the stored date is not looked at
check_ai_chat_limit_ignoring_date(usage, existing, t, user_id, daily_limit) ==
    IF user_id \notin existing THEN FALSE
    ELSE usage[user_id].count < daily_limit

\* User.check_ai_chat_limit
check_ai_chat_limit(usage, existing, t, user_id, daily_limit) ==
    IF user_id \notin existing THEN FALSE
    ELSE IF usage[user_id].date = None \/ usage[user_id].date # t THEN TRUE
    ELSE usage[user_id].count < daily_limit

\* (mutant) the new count is returned but not stored
increment_ai_chat_usage_not_stored(usage, existing, t, user_id) ==
    IF user_id \notin existing THEN [table |-> usage, ret |-> 1]
    ELSE LET new_count == IF usage[user_id].date = t
                          THEN usage[user_id].count + 1 ELSE 1
         IN  [table |-> usage, ret |-> new_count]

\* User.increment_ai_chat_usage: the UPDATE ... RETURNING ai_chat_count
increment_ai_chat_usage(usage, existing, t, user_id) ==
    IF user_id \notin existing THEN [table |-> usage, ret |-> 1]
    ELSE LET new_count == IF usage[user_id].date = t
                          THEN usage[user_id].count + 1 ELSE 1
         IN  [table |-> [usage EXCEPT ![user_id] = [count |-> new_count, date |-> t]],
              ret |-> new_count]

\* the message of a request body: its length, and its length after strip();
\* a missing and an empty message are both <<0, 0>>
Messages == {[raw |-> 0, stripped |-> 0], [raw |-> 2, stripped |-> 0],
             [raw |-> MaxMessageLength, stripped |-> MaxMessageLength],
             [raw |-> MaxMessageLength + 2, stripped |-> MaxMessageLength],
             [raw |-> MaxMessageLength + 1, stripped |-> MaxMessageLength + 1]}

\* request bodies; language NULL and has_city FALSE are absent keys: every
\* message without the two keys, and the valid messages with them
RequestBodies ==
    [message : Messages, has_city : {FALSE}, userCity : {NoText}, language : {NULL}]
        \cup [message : {m \in Messages : m.stripped = MaxMessageLength},
               has_city : {TRUE}, userCity : {<<"I", "i">>}, language : {"en"}]

\* data.get('userCity', 'Helsinki') and data.get('language', 'fi')
request_city(data) ==
    IF data.has_city THEN data.userCity ELSE <<"H", "e", "l", "s", "i", "n", "k", "i">>
request_language(data) == IF data.language = NULL THEN "fi" ELSE data.language

\* what the model answers during a request: a first response with at most
\* one tool call, and a second response where a second call can be made
ModelAnswers ==
    {a \in [first : FirstResponses, second : SecondResponses] :
        /\ Len(a.first.tool_calls) <= 1
        /\ \A i \in 1..Len(a.first.tool_calls) :
              a.first.tool_calls[i].arguments \in {Invalid, OtherArguments}
        /\ a.second = "error" =>
              /\ Len(a.first.tool_calls) = 1
              /\ a.first.tool_calls[1].name = "search_offers"
              /\ a.first.tool_calls[1].arguments.valid}

\* a JSON response; None and <<>> stand for absent keys
Response(status, success, message, dailyLimit, currentUsage, found) ==
    [status |-> status, success |-> success, message |-> message,
     dailyLimit |-> dailyLimit, currentUsage |-> currentUsage, offers |-> found]

\* (mutant) a failed chat is not told from a successful one
processing_failed_never(response) == FALSE

\* if not response.get('success')
processing_failed(response) == ~response.success

\* the POST /ai-chat handler: the response, the users table afterwards and
\* the steps taken, in order
ai_chat(usage, existing, client, stored_limit, stored, t, user_id, data, first, second) ==
    IF data.message.raw = 0
    THEN [response |-> Response(400, FALSE, "Message is required", None, None, <<>>),
          usage |-> usage, steps |-> <<>>, processed |-> "no"]
    ELSE IF data.message.stripped = 0
    THEN [response |-> Response(400, FALSE, "Message cannot be empty", None, None, <<>>),
          usage |-> usage, steps |-> <<>>, processed |-> "no"]
    ELSE IF data.message.stripped > MaxMessageLength
    THEN [response |-> Response(400, FALSE, "Message too long", None, None, <<>>),
          usage |-> usage, steps |-> <<>>, processed |-> "no"]
    ELSE
      LET dynamic_chat_limit == get_chat_limit(client, stored_limit)
      IN  IF ~check_ai_chat_limit(usage, existing, t, user_id, dynamic_chat_limit)
          THEN [response |-> Response(429, FALSE, "Daily chat limit exceeded",
                                      dynamic_chat_limit, None, <<>>),
                usage |-> usage, steps |-> <<"check_ai_chat_limit">>,
                processed |-> "no"]
          ELSE
            LET done == process_chat_message(client, stored, t, request_city(data),
                                             request_language(data), first, second)
                calls == [i \in 1..Len(done.model_calls) |-> "model_call"]
            IN  IF processing_failed(done.result)
                THEN [response |-> Response(500, FALSE, done.result.message,
                                            None, None, <<>>),
                      usage |-> usage,
                      steps |-> <<"check_ai_chat_limit">> \o calls,
                      processed |-> IF done.result.success THEN "succeeded" ELSE "failed"]
                ELSE
                  LET inc == increment_ai_chat_usage(usage, existing, t, user_id)
                  IN  [response |-> Response(200, TRUE, done.result.message,
                                             dynamic_chat_limit, inc.ret,
                                             done.result.offers),
                       usage |-> inc.table,
                       steps |-> <<"check_ai_chat_limit">> \o calls
                                    \o <<"increment_ai_chat_usage">>,
                       processed |-> IF done.result.success THEN "succeeded" ELSE "failed"]

AiChat ==
    /\ nrequests < MaxRequests
    /\ \E user_id \in UserIds, data \in RequestBodies, answers \in ModelAnswers :
        LET done == ai_chat(ai_chat_usage, users, openai_client, chat_limit, offers,
                            today, user_id, data, answers.first, answers.second)
        IN  /\ ai_chat_usage' = done.usage
            /\ nrequests' = nrequests + 1
            /\ lastRequest' = [op |-> "ai_chat", user_id |-> user_id,
                               message |-> data.message,
                               tool_calls |-> Len(answers.first.tool_calls),
                               date |-> today, daily_limit |-> get_chat_limit(openai_client, chat_limit),
                               before |-> ai_chat_usage, after |-> done.usage,
                               response |-> done.response, steps |-> done.steps,
                               processed |-> done.processed]
            /\ UNCHANGED <<offerVars, today, storeVars, businessVars, searchVars,
                           chatVars, users, chat_limit, routeVars, poolVars, raceVars>>

\* midnight passes
NextDayQuota ==
    /\ today < MaxDay
    /\ today' = today + 1
    /\ UNCHANGED <<offerVars, storeVars, businessVars, searchVars, chatVars, quotaVars, routeVars, poolVars, raceVars>>

(***************************************************************************)
(* The tracking functions on a database whose steps may fail.  A step is   *)
(* one "with get_db_connection()" block: when it fails nothing of it is    *)
(* committed and the exception goes to the enclosing except.  fails is the *)
(* set of steps that fail if they are reached.  Every function gives the   *)
(* tables it leaves, what it returns ("True", "False", "None", or "raised" *)
(* for an exception that leaves it), the steps that did fail, and the      *)
(* events of the control flow in order: "append" (an event is stored),     *)
(* "dedup" (the duplicate check is made), "increment" (an aggregate        *)
(* counter is incremented).                                                *)
(***************************************************************************)
OfferSteps == {"get_user_city", "dedup", "ensure_row", "update"}
BusinessSteps == {"select_offer", "ensure_row", "update"}
EventSteps == {"insert"} \cup BusinessSteps

\* the database works, or one of the steps fails
FailureSets(steps) == {{}} \cup {{step} : step \in steps}

Tables == [offer |-> offer_analytics, business |-> business_analytics,
           events |-> analytics_events]

Outcome(db, ret, failed, steps) ==
    [db |-> db, ret |-> ret, failed |-> failed, steps |-> steps]

\* (mutant) the except branch reports success
error_return_true == "True"

\* except Exception: ... return False
error_return == "False"

\* the two helpers swallow their own failure: no city, not tracked
HelperFailures(user_id, fails) ==
    IF user_id # None THEN fails \cap {"get_user_city", "dedup"} ELSE {}

\* OfferAnalytics.track_offer_interaction / track_conversion; is_conversion
\* selects the second, kind is the event type or the conversion type
track_offer_db(db, day, offer_id, user_id, kind, is_conversion, fails) ==
    LET user_city == IF user_id # None /\ "get_user_city" \notin fails
                     THEN get_user_city(user_id) ELSE NULL
        duplicate == /\ user_id # None /\ "dedup" \notin fails
                     /\ IF is_conversion
                        THEN has_user_converted_today(db.offer, offer_id, user_id, kind, day)
                        ELSE is_user_already_tracked_today(db.offer, offer_id, user_id, day)
        consulted == IF user_id # None THEN <<"dedup">> ELSE <<>>
        helpers == HelperFailures(user_id, fails)
        field == IF is_conversion THEN conversion_field_mapping(kind)
                 ELSE field_mapping(kind)
        ensured == [db EXCEPT !.offer = EnsureOfferRow(@, offer_id, day, user_id, user_city)]
        updated == [ensured EXCEPT !.offer =
                       IF is_conversion
                       THEN UpdateConversion(@, field, user_id, user_city, offer_id, day)
                       ELSE UpdateCounter(@, field, user_id, user_city, offer_id, day)]
    IN  IF duplicate THEN Outcome(db, "True", helpers, consulted)
        ELSE IF "ensure_row" \in fails
        THEN Outcome(db, error_return, helpers \cup {"ensure_row"}, consulted)
        ELSE IF field = NULL THEN Outcome(ensured, "False", helpers, consulted)
        ELSE IF "update" \in fails
        THEN Outcome(ensured, error_return, helpers \cup {"update"}, consulted)
        ELSE Outcome(updated, "True", helpers, consulted \o <<"increment">>)

\* the business_analytics row of the offer's business is there
EnsureBusinessRow(tbl, business_id, day) ==
    IF ExistingBusinessRecord(tbl, business_id, day) THEN tbl
    ELSE Append(tbl, NewBusinessRow(business_id, day, 0, 0, 0))

\* UPDATE business_analytics SET {field} = {field} + 1 [, total_conversions =
\* total_conversions + 1] ; then SET active_offers = (SELECT COUNT(*) ...)
UpdateBusinessRow(tbl, stored, t, business_id, day, field, with_total) ==
    [i \in 1..Len(tbl) |->
        IF MatchesBusinessDate(tbl[i], business_id, day)
        THEN LET counted == [tbl[i] EXCEPT ![field] = @ + 1,
                                           !.active_offers = ActiveOffers(stored, t, business_id)]
             IN  IF with_total THEN [counted EXCEPT !.total_conversions = @ + 1]
                 ELSE counted
        ELSE tbl[i]]

\* Analytics._push_to_business_analytics: every failure is swallowed
push_to_business_analytics_db(db, stored, t, event_type, offer_id, event_date, fails) ==
    LET business_id == offer_business_id(offer_id)
        field == business_field_mapping(event_type)
        ensured == [db EXCEPT !.business = EnsureBusinessRow(@, business_id, event_date)]
        updated == [ensured EXCEPT !.business =
                       UpdateBusinessRow(@, stored, t, business_id, event_date, field, FALSE)]
    IN  IF "select_offer" \in fails THEN Outcome(db, "None", {"select_offer"}, <<>>)
        ELSE IF offer_id \notin stored THEN Outcome(db, "None", {}, <<>>)
        ELSE IF "ensure_row" \in fails THEN Outcome(db, "None", {"ensure_row"}, <<>>)
        ELSE IF field = NULL THEN Outcome(ensured, "None", {}, <<>>)
        ELSE IF "update" \in fails THEN Outcome(ensured, "None", {"update"}, <<>>)
        ELSE Outcome(updated, "None", {}, <<"increment">>)

\* Analytics.track_event: every failure is swallowed
track_event_db(db, stored, t, event, event_date, fails) ==
    IF "insert" \in fails \/ ViolatesForeignKey(stored, event)
    THEN Outcome(db, "None", {"insert"}, <<>>)
    ELSE LET appended == [db EXCEPT !.events = Append(@, event)]
             pushed == push_to_business_analytics_db(appended, stored, t,
                           event.event_type, event.offer_id, event_date, fails)
         IN  IF event.offer_id = None THEN Outcome(appended, "None", {}, <<"append">>)
             ELSE Outcome(pushed.db, "None", pushed.failed, <<"append">> \o pushed.steps)

\* Analytics.track_business_conversion: every failure is swallowed
track_business_conversion_db(db, stored, t, conversion_type, offer_id, event_date, fails) ==
    LET business_id == offer_business_id(offer_id)
        field == conversion_field_mapping(conversion_type)
        ensured == [db EXCEPT !.business = EnsureBusinessRow(@, business_id, event_date)]
        updated == [ensured EXCEPT !.business =
                       UpdateBusinessRow(@, stored, t, business_id, event_date, field, TRUE)]
    IN  IF "select_offer" \in fails THEN Outcome(db, "None", {"select_offer"}, <<>>)
        ELSE IF offer_id \notin stored THEN Outcome(db, "None", {}, <<>>)
        ELSE IF "ensure_row" \in fails THEN Outcome(db, "None", {"ensure_row"}, <<>>)
        ELSE IF field = NULL THEN Outcome(ensured, "None", {}, <<>>)
        ELSE IF "update" \in fails THEN Outcome(ensured, "None", {"update"}, <<>>)
        ELSE Outcome(updated, "None", {}, <<"increment">>)

\* the columns SimpleAnalytics is called with, and whether it is a conversion
SimpleFields == {<<"total_views", FALSE>>, <<"total_clicks", FALSE>>,
                 <<"conversion_website", TRUE>>, <<"conversion_calls", TRUE>>,
                 <<"conversion_directions", TRUE>>}

\* SimpleAnalytics._update_business_analytics
update_business_analytics_db(db, stored, t, offer_id, field_name, is_conversion, fails) ==
    LET business_id == offer_business_id(offer_id)
        ensured == [db EXCEPT !.business = EnsureBusinessRow(@, business_id, t)]
        updated == [ensured EXCEPT !.business =
                       UpdateBusinessRow(@, stored, t, business_id, t, field_name,
                                         is_conversion)]
    IN  IF "select_offer" \in fails THEN Outcome(db, error_return, {"select_offer"}, <<>>)
        ELSE IF offer_id \notin stored THEN Outcome(db, "False", {}, <<>>)
        ELSE IF "ensure_row" \in fails THEN Outcome(db, error_return, {"ensure_row"}, <<>>)
        ELSE IF "update" \in fails THEN Outcome(ensured, error_return, {"update"}, <<>>)
        ELSE Outcome(updated, "True", {}, <<"increment">>)

\* Analytics.batch_track_events: the INSERT; then _batch_update_business_analytics
\* with its own except: the SELECT of the offers, the one transaction of updates
batch_track_events_db(db, stored, events_data, event_date, fails) ==
    LET tallied == \E i \in 1..Len(events_data) : Tallied(events_data[i])
        appended == [db EXCEPT !.events = @ \o events_data]
        updated == [appended EXCEPT !.business =
                       batch_update_business_analytics(@, stored, events_data, event_date)]
        stored_all == [i \in 1..Len(events_data) |-> "append"]
    IN  IF events_data = <<>> THEN Outcome(db, "None", {}, <<>>)
        ELSE IF \/ "insert" \in fails
                \/ \E i \in 1..Len(events_data) : ViolatesForeignKey(stored, events_data[i])
        THEN Outcome(db, "None", {"insert"}, <<>>)
        ELSE IF ~tallied THEN Outcome(appended, "None", {}, stored_all)
        ELSE IF "select_offer" \in fails
        THEN Outcome(appended, "None", {"select_offer"}, stored_all)
        ELSE IF "update" \in fails
        THEN Outcome(appended, "None", {"update"}, stored_all)
        ELSE IF updated.business = appended.business
        THEN Outcome(appended, "None", {}, stored_all)
        ELSE Outcome(updated, "None", {}, stored_all \o <<"increment">>)

\* Tarjous.find_by_id: the approved, unexpired offer of this id
find_by_id(stored, t, offer_id) ==
    /\ offer_id \in stored
    /\ offer_status(offer_id) = "approved"
    /\ (offer_expires_at(offer_id) = None \/ offer_expires_at(offer_id) > t)

\* the offers the requests are about: live, pending, expiring, unknown
RouteOfferIds == {1, 6, 7, UnknownOffer}

\* the offers the business functions are called with: stored, unknown
BusinessOfferIds == {1, UnknownOffer}

\* the events tracked: of no offer, of a stored one, of an unknown one
RouteEvents == [event_type : EventTypes, offer_id : {None} \cup BusinessOfferIds]

\* (offer_id, user_id) of the direct calls: the offer with every caller, and
\* an offer that is not in the offers table.  offer_analytics is not created
\* by the sources: whether its offer_id references offers is not known, the
\* INSERT for an unknown offer goes through or is a failing "ensure_row"
CallArguments == (OfferIds \X Users) \cup {<<UnknownOffer, None>>}

NoOp == [op |-> "none"]

InitRoutes ==
    /\ lastOp = NoOp
    /\ nops = 0

\* what an operation leaves in the tables, and the record of it
Done(op, user_id, offer_ids, out, status) ==
    /\ offer_analytics' = out.db.offer
    /\ business_analytics' = out.db.business
    /\ analytics_events' = out.db.events
    /\ lastOp' = [op |-> op, user_id |-> user_id, offer_ids |-> offer_ids,
                  ret |-> out.ret, failed |-> out.failed,
                  steps |-> out.steps, status |-> status,
                  before |-> Tables, after |-> out.db]
    /\ nops' = nops + 1
    /\ UNCHANGED <<lastCall, accepted, ncalls, today, storeVars, lastBatch, nevents,
                   searchVars, chatVars, quotaVars, poolVars, raceVars>>

\* POST /analytics/track: track_event, then success whatever happened (the
\* events of the model carry no user)
TrackAnalytics ==
    /\ nops < MaxOps
    /\ \E event \in RouteEvents, fails \in FailureSets(EventSteps) :
          Done("POST /analytics/track", None, {event.offer_id},
               track_event_db(Tables, offers, today, event, today, fails), 200)

\* POST /tarjoukset/<id>/click: 404 without the offer, else track the click
TrackOfferClick ==
    /\ nops < MaxOps
    /\ \E user_id \in UserIds, offer_id \in RouteOfferIds, fails \in FailureSets(OfferSteps) :
          IF find_by_id(offers, today, offer_id)
          THEN Done("POST /tarjoukset/<id>/click", user_id, {offer_id},
                    track_offer_db(Tables, today, offer_id, user_id, "click", FALSE, fails),
                    200)
          ELSE Done("POST /tarjoukset/<id>/click", user_id, {offer_id},
                    Outcome(Tables, "None", {}, <<>>), 404)

\* POST /tarjoukset/<id>/conversion/website, /call and /directions
TrackOfferConversion ==
    /\ nops < MaxOps
    /\ \E user_id \in UserIds, offer_id \in RouteOfferIds,
          conversion_type \in {"website", "call", "directions"},
          fails \in FailureSets(OfferSteps) :
          IF find_by_id(offers, today, offer_id)
          THEN Done("POST /tarjoukset/<id>/conversion", user_id, {offer_id},
                    track_offer_db(Tables, today, offer_id, user_id, conversion_type,
                                   TRUE, fails), 200)
          ELSE Done("POST /tarjoukset/<id>/conversion", user_id, {offer_id},
                    Outcome(Tables, "None", {}, <<>>), 404)

\* OfferAnalytics.track_offer_interaction called with any event type and user
TrackOfferInteractionCall ==
    /\ nops < MaxOps
    /\ \E call \in CallArguments, event_type \in EventTypes,
          fails \in FailureSets(OfferSteps) :
          Done("track_offer_interaction", call[2], {call[1]},
               track_offer_db(Tables, today, call[1], call[2], event_type, FALSE, fails),
               None)

\* OfferAnalytics.track_conversion called with any conversion type and user
TrackConversionCall ==
    /\ nops < MaxOps
    /\ \E call \in CallArguments, conversion_type \in ConversionTypes,
          fails \in FailureSets(OfferSteps) :
          Done("track_conversion", call[2], {call[1]},
               track_offer_db(Tables, today, call[1], call[2], conversion_type, TRUE,
                              fails), None)

\* SimpleAnalytics.track_offer_view, ..., track_directions_conversion
UpdateBusinessAnalytics ==
    /\ nops < MaxOps
    /\ \E offer_id \in BusinessOfferIds, f \in SimpleFields, fails \in FailureSets(BusinessSteps) :
          Done("_update_business_analytics", None, {offer_id},
               update_business_analytics_db(Tables, offers, today, offer_id, f[1], f[2],
                                            fails), None)

TrackBusinessConversion ==
    /\ nops < MaxOps
    /\ \E offer_id \in BusinessOfferIds, conversion_type \in ConversionTypes,
          fails \in FailureSets(BusinessSteps) :
          Done("track_business_conversion", None, {offer_id},
               track_business_conversion_db(Tables, offers, today, conversion_type,
                                            offer_id, today, fails), None)

BatchTrackEventsCall ==
    /\ nops < MaxOps
    /\ \E events_data \in UNION {[1..m -> RouteEvents] : m \in 0..1},
          fails \in FailureSets(EventSteps) :
          Done("batch_track_events", None,
               {events_data[i].offer_id : i \in 1..Len(events_data)},
               batch_track_events_db(Tables, offers, events_data, today, fails), None)

(***************************************************************************)
(* Analytics.batch_track_events_async: the executor and, step by step, the *)
(* batch_track_events calls its threads run.  A step is one statement or   *)
(* one transaction on the database; the steps of different threads         *)
(* interleave.  Every batch of the model tallies for at most one business, *)
(* so the transaction of _batch_update_business_analytics is a SELECT and  *)
(* then an UPDATE or an INSERT with the commit; the UPDATE adds to the row *)
(* as it is when the statement runs (it waits for the row lock).           *)
(***************************************************************************)
\* ThreadPoolExecutor(max_workers=2)
max_workers == 2

\* the batches submitted: empty, two of business 1, one whose offer does not
\* exist
PoolBatches ==
    {<<>>,
     <<[event_type |-> "view", offer_id |-> 1]>>,
     <<[event_type |-> "click", offer_id |-> 2]>>,
     <<[event_type |-> "view", offer_id |-> UnknownOffer]>>}

BatchIds == 1..MaxBatches

RunningSteps == {"insert", "check", "write"}

\* the batches a thread of the pool is running
Running(t) == {id \in BatchIds : t[id].pc \in RunningSteps}

NewTask == [pc |-> "none", existing_record |-> FALSE]

InitPool ==
    /\ work_queue = <<>>
    /\ tasks = [id \in BatchIds |-> NewTask]
    /\ submitted = <<>>
    /\ unique_key = FALSE
    /\ initial_rows = <<>>

\* (mutant) a thread for every work item
idle_worker_unbounded(t) == TRUE

\* a thread is idle, or fewer than max_workers threads exist
idle_worker(t) == Cardinality(Running(t)) < max_workers

\* batch_track_events_async: submit() puts the work item on the queue and
\* returns; what submit() raises is caught
BatchTrackEventsAsync ==
    /\ Len(submitted) < MaxBatches
    /\ \E events_data \in PoolBatches :
          LET id == Len(submitted) + 1
          IN  /\ submitted' = Append(submitted, [events |-> events_data, returned |-> "None"])
              /\ work_queue' = Append(work_queue, id)
              /\ tasks' = [tasks EXCEPT ![id].pc = "queued"]
    /\ UNCHANGED <<offerVars, today, storeVars, businessVars, searchVars, chatVars,
                   quotaVars, routeVars, unique_key, initial_rows, raceVars>>

\* a thread of the pool takes the oldest work item
StartBatch ==
    /\ work_queue # <<>>
    /\ idle_worker(tasks)
    /\ tasks' = [tasks EXCEPT ![Head(work_queue)].pc = "insert"]
    /\ work_queue' = Tail(work_queue)
    /\ UNCHANGED <<offerVars, today, storeVars, businessVars, searchVars, chatVars,
                   quotaVars, routeVars, submitted, unique_key, initial_rows, raceVars>>

\* batch_track_events up to the commit of the INSERT INTO analytics_events,
\* and SELECT id, business_id FROM offers of _batch_update_business_analytics
\* (no step of the pool changes the offers table)
InsertEvents(id) ==
    LET events_data == submitted[id].events
    IN  /\ tasks[id].pc = "insert"
        /\ IF events_data = <<>>
              \/ \E i \in 1..Len(events_data) : ViolatesForeignKey(offers, events_data[i])
           THEN /\ tasks' = [tasks EXCEPT ![id].pc = "done"]
                /\ UNCHANGED analytics_events
           ELSE /\ analytics_events' = analytics_events \o events_data
                /\ tasks' = [tasks EXCEPT ![id].pc =
                                IF /\ \E i \in 1..Len(events_data) : Tallied(events_data[i])
                                   /\ UpdatedBusinesses(events_data, offers) # <<>>
                                THEN "check" ELSE "done"]
        /\ UNCHANGED <<offerVars, today, storeVars, business_analytics, lastBatch, nevents,
                       searchVars, chatVars, quotaVars, routeVars, work_queue, submitted,
                       unique_key, initial_rows, raceVars>>

\* SELECT id FROM business_analytics WHERE business_id = %s AND date = %s
CheckRecord(id) ==
    LET business_id == Head(UpdatedBusinesses(submitted[id].events, offers))
    IN  /\ tasks[id].pc = "check"
        /\ tasks' = [tasks EXCEPT ![id] =
                        [pc |-> "write",
                         existing_record |->
                            ExistingBusinessRecord(business_analytics, business_id, today)]]
        /\ UNCHANGED <<offerVars, today, storeVars, businessVars, searchVars, chatVars,
                       quotaVars, routeVars, work_queue, submitted, unique_key, initial_rows, raceVars>>

\* UPDATE business_analytics SET total_views = total_views + %s, ...
update_existing_record(tbl, business_id, event_date, views, clicks, conversions) ==
    [i \in 1..Len(tbl) |->
        IF MatchesBusinessDate(tbl[i], business_id, event_date)
        THEN [tbl[i] EXCEPT !.total_views = @ + views,
                            !.total_clicks = @ + clicks,
                            !.total_conversions = @ + conversions]
        ELSE tbl[i]]

\* the UPDATE or the INSERT the check chose, and the commit; an INSERT that
\* violates the unique key raises and the batch ends there
WriteRecord(id) ==
    LET events_data == submitted[id].events
        business_id == Head(UpdatedBusinesses(events_data, offers))
        views == business_stats(events_data, offers, business_id, "view")
        clicks == business_stats(events_data, offers, business_id, "click")
        conversions == business_stats(events_data, offers, business_id, "conversion")
    IN  /\ tasks[id].pc = "write"
        /\ business_analytics' =
              IF tasks[id].existing_record
              THEN update_existing_record(business_analytics, business_id, today,
                                          views, clicks, conversions)
              ELSE IF unique_key /\ ExistingBusinessRecord(business_analytics, business_id, today)
              THEN business_analytics
              ELSE Append(business_analytics,
                          NewBusinessRow(business_id, today, views, clicks, conversions))
        /\ tasks' = [tasks EXCEPT ![id].pc = "done"]
        /\ UNCHANGED <<offerVars, today, storeVars, analytics_events, lastBatch, nevents,
                       searchVars, chatVars, quotaVars, routeVars, work_queue, submitted,
                       unique_key, initial_rows, raceVars>>

\* a thread of the pool goes on with its batch
WorkerStep ==
    \E id \in BatchIds :
        InsertEvents(id) \/ CheckRecord(id) \/ WriteRecord(id)

(***************************************************************************)
(* OfferAnalytics.track_offer_interaction, step by step: the duplicate     *)
(* check, the SELECT of the row, the INSERT with its commit, the UPDATE    *)
(* with its commit.  Each is a statement of its own in the source, so the  *)
(* steps of calls that run at the same time interleave.  All calls are for *)
(* the same offer today.  offer_analytics is not created by the sources:   *)
(* with a unique key on (offer_id, date) the INSERT of a second row raises *)
(* and the call returns False, without one the row is added.               *)
(***************************************************************************)
CallIds == 1..MaxInFlight

RaceOffer == CHOOSE offer_id \in OfferIds : TRUE

\* the callers and the event types of the calls in progress
RaceUsers == {None, 1}
RaceEventTypes == {"view", "search"}

NewCall == [pc |-> "none", user_id |-> None, event_type |-> "view",
            existing_record |-> FALSE, skipped |-> FALSE, attempted |-> FALSE,
            inserted |-> FALSE, ret |-> "None"]

NoRequest == [pc |-> "none", status |-> None]

InitRace ==
    /\ track_calls = [id \in CallIds |-> NewCall]
    /\ offer_unique_key = FALSE
    /\ requests = [id \in 1..MaxRequests |-> NoRequest]

\* what a call goes on with once the row is there: the field mapping
after_row_ensured(call) ==
    IF field_mapping(call.event_type) = NULL
    THEN [call EXCEPT !.pc = "done", !.ret = "False"]
    ELSE [call EXCEPT !.pc = "update"]

\* the call starts: user_city is looked up (the users table does not change)
BeginCall(id) ==
    /\ track_calls[id].pc = "none"
    /\ \E user_id \in RaceUsers, event_type \in RaceEventTypes :
          track_calls' = [track_calls EXCEPT ![id] =
                       [NewCall EXCEPT !.pc = IF user_id # None THEN "dedup" ELSE "select",
                                       !.user_id = user_id,
                                       !.event_type = event_type]]
    /\ UNCHANGED <<offerVars, today, storeVars, businessVars, searchVars, chatVars,
                   quotaVars, routeVars, poolVars, offer_unique_key, requests>>

\* if user_id and _is_user_already_tracked_today(...): return True
CheckDuplicate(id) ==
    /\ track_calls[id].pc = "dedup"
    /\ track_calls' = [track_calls EXCEPT ![id] =
                    IF is_user_already_tracked_today(offer_analytics, RaceOffer,
                                                     track_calls[id].user_id, today)
                    THEN [@ EXCEPT !.pc = "done", !.skipped = TRUE, !.ret = "True"]
                    ELSE [@ EXCEPT !.pc = "select"]]
    /\ UNCHANGED <<offerVars, today, storeVars, businessVars, searchVars, chatVars,
                   quotaVars, routeVars, poolVars, offer_unique_key, requests>>

\* SELECT id FROM offer_analytics WHERE offer_id = %s AND date = %s
SelectRecord(id) ==
    /\ track_calls[id].pc = "select"
    /\ track_calls' = [track_calls EXCEPT ![id] =
                    IF ExistingRecord(offer_analytics, RaceOffer, today)
                    THEN after_row_ensured([@ EXCEPT !.existing_record = TRUE])
                    ELSE [@ EXCEPT !.pc = "insert"]]
    /\ UNCHANGED <<offerVars, today, storeVars, businessVars, searchVars, chatVars,
                   quotaVars, routeVars, poolVars, offer_unique_key, requests>>

\* (mutant) INSERT ... ON CONFLICT DO NOTHING
insert_record_if_absent(tbl, offer_id, day, user_id, user_city) ==
    EnsureOfferRow(tbl, offer_id, day, user_id, user_city)

\* INSERT INTO offer_analytics (...) VALUES (%s, %s, 0, 0, 0, 0, 0, 0, %s, %s, ...)
insert_record(tbl, offer_id, day, user_id, user_city) ==
    Append(tbl, NewOfferRow(offer_id, day, user_id, user_city))

\* the INSERT and its commit; on a unique key violation the except branch
InsertRecord(id) ==
    LET call == track_calls[id]
        user_city == IF call.user_id # None THEN get_user_city(call.user_id) ELSE NULL
    IN  /\ call.pc = "insert"
        /\ IF offer_unique_key /\ ExistingRecord(offer_analytics, RaceOffer, today)
           THEN /\ track_calls' = [track_calls EXCEPT ![id] =
                                [@ EXCEPT !.pc = "done", !.attempted = TRUE, !.ret = "False"]]
                /\ UNCHANGED offer_analytics
           ELSE /\ offer_analytics' = insert_record(offer_analytics, RaceOffer, today,
                                                    call.user_id, user_city)
                /\ track_calls' = [track_calls EXCEPT ![id] =
                                after_row_ensured([@ EXCEPT !.attempted = TRUE,
                                                            !.inserted = TRUE])]
        /\ UNCHANGED <<lastCall, accepted, ncalls, today, storeVars, businessVars,
                       searchVars, chatVars, quotaVars, routeVars, poolVars,
                       offer_unique_key, requests>>

\* (mutant) the UPDATE leaves the row of a user who is on it already
update_counter_unless_tracked(tbl, field, user_id, user_city, offer_id, day) ==
    IF user_id # None /\ is_user_already_tracked_today(tbl, offer_id, user_id, day)
    THEN tbl
    ELSE UpdateCounter(tbl, field, user_id, user_city, offer_id, day)

\* the UPDATE of the counter as the call runs it
update_counter(tbl, field, user_id, user_city, offer_id, day) ==
    UpdateCounter(tbl, field, user_id, user_city, offer_id, day)

\* the UPDATE and its commit; return True
UpdateRecord(id) ==
    LET call == track_calls[id]
        user_city == IF call.user_id # None THEN get_user_city(call.user_id) ELSE NULL
    IN  /\ call.pc = "update"
        /\ offer_analytics' = update_counter(offer_analytics, field_mapping(call.event_type),
                                             call.user_id, user_city, RaceOffer, today)
        /\ track_calls' = [track_calls EXCEPT ![id] = [@ EXCEPT !.pc = "done", !.ret = "True"]]
        /\ UNCHANGED <<lastCall, accepted, ncalls, today, storeVars, businessVars,
                       searchVars, chatVars, quotaVars, routeVars, poolVars,
                       offer_unique_key, requests>>

CallStep ==
    \E id \in CallIds :
        \/ BeginCall(id) \/ CheckDuplicate(id) \/ SelectRecord(id)
        \/ InsertRecord(id) \/ UpdateRecord(id)

(***************************************************************************)
(* POST /ai-chat, step by step, for requests of one user that pass the     *)
(* validation: User.check_ai_chat_limit, process_chat_message (the model  *)
(* answers or fails), User.increment_ai_chat_usage.  The check and the     *)
(* increment are separate statements on the users table.                   *)
(***************************************************************************)
RequestIds == 1..MaxRequests

RaceUser == CHOOSE user_id \in UserIds : TRUE

\* the request arrives, the body is validated
BeginRequest(id) ==
    /\ requests[id].pc = "none"
    /\ requests' = [requests EXCEPT ![id].pc = "check"]
    /\ UNCHANGED <<offerVars, today, storeVars, businessVars, searchVars, chatVars,
                   quotaVars, routeVars, poolVars, track_calls, offer_unique_key>>

\* get_chat_limit() and User.check_ai_chat_limit: 429 or go on
CheckLimit(id) ==
    /\ requests[id].pc = "check"
    /\ requests' = [requests EXCEPT ![id] =
                       IF check_ai_chat_limit(ai_chat_usage, users, today, RaceUser,
                                              get_chat_limit(openai_client, chat_limit))
                       THEN [pc |-> "process", status |-> None]
                       ELSE [pc |-> "done", status |-> 429]]
    /\ UNCHANGED <<offerVars, today, storeVars, businessVars, searchVars, chatVars,
                   quotaVars, routeVars, poolVars, track_calls, offer_unique_key>>

\* process_chat_message: success, or a failure result and 500
ProcessRequest(id) ==
    /\ requests[id].pc = "process"
    /\ \E success \in BOOLEAN :
          requests' = [requests EXCEPT ![id] =
                          IF success THEN [pc |-> "increment", status |-> None]
                          ELSE [pc |-> "done", status |-> 500]]
    /\ UNCHANGED <<offerVars, today, storeVars, businessVars, searchVars, chatVars,
                   quotaVars, routeVars, poolVars, track_calls, offer_unique_key>>

\* User.increment_ai_chat_usage and the 200 response
IncrementUsage(id) ==
    /\ requests[id].pc = "increment"
    /\ ai_chat_usage' = increment_ai_chat_usage(ai_chat_usage, users, today, RaceUser).table
    /\ requests' = [requests EXCEPT ![id] = [pc |-> "done", status |-> 200]]
    /\ UNCHANGED <<offerVars, today, storeVars, businessVars, searchVars, chatVars,
                   users, chat_limit, lastRequest, nrequests, routeVars, poolVars,
                   track_calls, offer_unique_key>>

RequestStep ==
    \E id \in RequestIds :
        BeginRequest(id) \/ CheckLimit(id) \/ ProcessRequest(id) \/ IncrementUsage(id)

(***************************************************************************)
(* Specification of the offer_analytics calls.                             *)
(***************************************************************************)
InitOffer ==
    /\ offer_analytics = <<>>
    /\ lastCall = NoCall
    /\ accepted = [k \in OfferIds \X Days |-> [kind \in AcceptedKinds |-> 0]]
    /\ ncalls = 0

Init ==
    /\ InitOffer
    /\ today = 1
    /\ InitStore
    /\ InitBusiness
    /\ lastSearch = NoSearch
    /\ openai_client = TRUE
    /\ lastChat = NoChat
    /\ InitQuota
    /\ InitRoutes
    /\ InitPool
    /\ InitRace

TrackOfferInteraction ==
    \E offer_id \in OfferIds, user_id \in Users, event_type \in EventTypes :
        LET res == track_offer_interaction(offer_analytics, today, offer_id, user_id, event_type)
        IN  /\ ncalls < MaxCalls
            /\ offer_analytics' = res.table
            /\ lastCall' = CallRecord(lastCall, "track_offer_interaction", offer_id, user_id,
                                      event_type, today, offer_analytics, res)
            /\ accepted' = CountAccepted(accepted, offer_id, today, event_type, res)
            /\ ncalls' = ncalls + 1
            /\ UNCHANGED <<today, storeVars, businessVars, searchVars, chatVars, quotaVars, routeVars, poolVars, raceVars>>

TrackConversion ==
    \E offer_id \in OfferIds, user_id \in Users, conversion_type \in ConversionTypes :
        LET res == track_conversion(offer_analytics, today, offer_id, conversion_type, user_id)
        IN  /\ ncalls < MaxCalls
            /\ offer_analytics' = res.table
            /\ lastCall' = CallRecord(lastCall, "track_conversion", offer_id, user_id,
                                      conversion_type, today, offer_analytics, res)
            /\ accepted' = CountAccepted(accepted, offer_id, today, conversion_type, res)
            /\ ncalls' = ncalls + 1
            /\ UNCHANGED <<today, storeVars, businessVars, searchVars, chatVars, quotaVars, routeVars, poolVars, raceVars>>

\* midnight: date.today() moves on
NextDay ==
    /\ today < MaxDay
    /\ today' = today + 1
    /\ UNCHANGED <<offerVars, storeVars, businessVars, searchVars, chatVars, quotaVars, routeVars, poolVars, raceVars>>

Next == TrackOfferInteraction \/ TrackConversion \/ NextDay

Spec == Init /\ [][Next]_vars

(***************************************************************************)
(* Specification of the offer_analytics calls with account deletion.       *)
(***************************************************************************)
\* DELETE FROM offer_analytics WHERE user_id = %s
delete_offer_analytics(tbl, user_id) ==
    SelectSeq(tbl, LAMBDA r : r.user_id # user_id)

\* User.delete_user: one transaction; the events of the model carry no user,
\* so DELETE FROM analytics_events removes none of them; an account that is
\* not there makes it roll back and raise
DeleteUser ==
    \E user_id \in UserIds :
        /\ user_id \in users
        /\ offer_analytics' = delete_offer_analytics(offer_analytics, user_id)
        /\ users' = users \ {user_id}
        /\ UNCHANGED <<lastCall, accepted, ncalls, today, storeVars, businessVars,
                       searchVars, chatVars, ai_chat_usage, chat_limit, lastRequest,
                       nrequests, routeVars, poolVars, raceVars>>

NextLifecycle == Next \/ DeleteUser

SpecLifecycle == Init /\ [][NextLifecycle]_vars

(***************************************************************************)
(* Specification of the business_analytics calls.                          *)
(***************************************************************************)
NextBusiness == BatchTrackEvents \/ TrackEvent

SpecBusiness == Init /\ [][NextBusiness]_vars

(***************************************************************************)
(* Specification of the offer search.                                      *)
(***************************************************************************)
\* SpecSearch starts from any set of the named offers, with or without the
\* bulk offers, on any day
InitSearch ==
    /\ InitOffer
    /\ InitBusiness
    /\ today \in Days
    /\ offers \in {named \cup bulk : named \in SUBSET NamedIds, bulk \in {{}, BulkIds}}
    /\ lastSearch = NoSearch
    /\ openai_client = TRUE
    /\ lastChat = NoChat
    /\ InitQuota
    /\ InitRoutes
    /\ InitPool
    /\ InitRace

NextSearch == SearchOffers

SpecSearch == InitSearch /\ [][NextSearch]_vars

(***************************************************************************)
(* Specification of the chat.                                              *)
(***************************************************************************)
\* SpecChat starts with no offers, the four offers of the city examples or
\* the whole catalogue, on any day, with or without a configured client
InitChat ==
    /\ InitOffer
    /\ InitBusiness
    /\ today \in Days
    /\ offers \in {{}, {1, 2, 3, 4}, CatalogueIds}
    /\ lastSearch = NoSearch
    /\ openai_client \in BOOLEAN
    /\ lastChat = NoChat
    /\ InitQuota
    /\ InitRoutes
    /\ InitPool
    /\ InitRace

NextChat == ProcessChatMessage

SpecChat == InitChat /\ [][NextChat]_vars

(***************************************************************************)
(* Specification of the daily quota.                                       *)
(***************************************************************************)
\* SpecQuota starts with both users or only user 1 registered, with or
\* without credentials, with any of the stored limits
InitSpecQuota ==
    /\ InitOffer
    /\ InitBusiness
    /\ InitStore
    /\ today = 1
    /\ lastSearch = NoSearch
    /\ lastChat = NoChat
    /\ openai_client \in BOOLEAN
    /\ users \in {UserIds, {1}}
    /\ ai_chat_usage = [u \in UserIds |-> NewUsage]
    /\ chat_limit \in StoredChatLimits
    /\ lastRequest = [op |-> "none"]
    /\ nrequests = 0
    /\ InitRoutes
    /\ InitPool
    /\ InitRace

NextQuota == AiChat \/ NextDayQuota

SpecQuota == InitSpecQuota /\ [][NextQuota]_vars

(***************************************************************************)
(* Specification of the tracking requests and calls.                       *)
(***************************************************************************)
NextRoutes ==
    \/ TrackAnalytics \/ TrackOfferClick \/ TrackOfferConversion
    \/ TrackOfferInteractionCall \/ TrackConversionCall
    \/ UpdateBusinessAnalytics \/ TrackBusinessConversion \/ BatchTrackEventsCall

SpecRoutes == Init /\ [][NextRoutes]_vars

(***************************************************************************)
(* Specification of the asynchronous batch ingest.  The schema of          *)
(* business_analytics is not part of the sources: both a table with and a  *)
(* table without a unique key on (business_id, date) are started from, and *)
(* both an empty table and one that has today's row of business 1.         *)
(***************************************************************************)
InitSpecPool ==
    /\ InitOffer
    /\ today = 1
    /\ InitStore
    /\ analytics_events = <<>>
    /\ lastBatch = NoBatch
    /\ nevents = 0
    /\ lastSearch = NoSearch
    /\ openai_client = TRUE
    /\ lastChat = NoChat
    /\ InitQuota
    /\ InitRoutes
    /\ work_queue = <<>>
    /\ tasks = [id \in BatchIds |-> NewTask]
    /\ submitted = <<>>
    /\ unique_key \in BOOLEAN
    /\ initial_rows \in {<<>>, <<NewBusinessRow(1, 1, 1, 0, 0)>>}
    /\ business_analytics = initial_rows
    /\ InitRace

NextPool == BatchTrackEventsAsync \/ StartBatch \/ WorkerStep

SpecPool == InitSpecPool /\ [][NextPool]_vars

\* the threads of the pool keep running: a work item that can be taken is
\* taken, a batch that is running goes on
SpecPoolFair == SpecPool /\ WF_vars(StartBatch) /\ WF_vars(WorkerStep)

(***************************************************************************)
(* Specification of concurrent track_offer_interaction calls: from an      *)
(* empty table or from one that has today's row of the offer, written by   *)
(* nobody or by the user; with and without a unique key.                   *)
(***************************************************************************)
InitialOfferRows ==
    {<<>>, <<NewOfferRow(RaceOffer, 1, None, NULL)>>}

InitSpecRace ==
    /\ offer_analytics \in InitialOfferRows
    /\ lastCall = NoCall
    /\ accepted = [k \in OfferIds \X Days |-> [kind \in AcceptedKinds |-> 0]]
    /\ ncalls = 0
    /\ today = 1
    /\ InitStore
    /\ InitBusiness
    /\ lastSearch = NoSearch
    /\ openai_client = TRUE
    /\ lastChat = NoChat
    /\ InitQuota
    /\ InitRoutes
    /\ InitPool
    /\ track_calls = [id \in CallIds |-> NewCall]
    /\ offer_unique_key \in BOOLEAN
    /\ requests = [id \in RequestIds |-> NoRequest]

NextRace == CallStep

SpecRace == InitSpecRace /\ [][NextRace]_vars

(***************************************************************************)
(* Specification of concurrent POST /ai-chat requests of one user on one   *)
(* day, with a stored daily limit that does not change.                    *)
(***************************************************************************)
InitSpecQuotaRace ==
    /\ InitOffer
    /\ today = 1
    /\ InitStore
    /\ InitBusiness
    /\ lastSearch = NoSearch
    /\ openai_client = TRUE
    /\ lastChat = NoChat
    /\ users = UserIds
    /\ ai_chat_usage = [u \in UserIds |-> NewUsage]
    /\ chat_limit \in StoredChatLimits \ {None}
    /\ lastRequest = [op |-> "none"]
    /\ nrequests = 0
    /\ InitRoutes
    /\ InitPool
    /\ InitRace

NextQuotaRace == RequestStep

SpecQuotaRace == InitSpecQuotaRace /\ [][NextQuotaRace]_vars

(***************************************************************************)
(* Claims about the offer_analytics calls (specification Spec).             *)
(***************************************************************************)
IsTrackCall(c) == c.op = "track_offer_interaction"
IsConversionCall(c) == c.op = "track_conversion"

\* the call returned True and left every row of its (offer, date) as it was
SkippedAsDuplicate(c) == c.ret = TRUE /\ c.after = c.before

\* some row of rows carries a user / carries this user
CarriesAnyUser(rows) == \E i \in 1..Len(rows) : rows[i].user_id # None
CarriesUser(rows, user_id) == \E i \in 1..Len(rows) : rows[i].user_id = user_id

\* C1: after any sequential run of tracking calls, the views counter of every
\* (offer, date) equals the number of view calls on it that the dedup guard
\* let through, and a view call that was let through adds exactly one view and
\* leaves clicks and conversions as they were.
C1_ViewsEqualAcceptedViews ==
    /\ \A o \in OfferIds, d \in Days :
          Counter(offer_analytics, o, d, "views") = accepted[<<o, d>>]["view"]
    /\ (IsTrackCall(lastCall) /\ lastCall.kind = "view" /\ ~lastCall.skipped) =>
          /\ SumField(lastCall.after, "views") = SumField(lastCall.before, "views") + 1
          /\ SumField(lastCall.after, "clicks") = SumField(lastCall.before, "clicks")
          /\ SumField(lastCall.after, "conversions") = SumField(lastCall.before, "conversions")

\* C1 witness: three view calls were let through on one offer and day, the
\* last of them by a user, and the counter reads 3
C1_Witness ==
    /\ IsTrackCall(lastCall) /\ lastCall.kind = "view" /\ ~lastCall.skipped
    /\ lastCall.user_id # None
    /\ accepted[<<lastCall.offer_id, lastCall.date>>]["view"] = 3
    /\ Counter(offer_analytics, lastCall.offer_id, lastCall.date, "views") = 3

\* C2: a user's view call that repeats that user's previous call (same offer,
\* same day) leaves the views counter at most one above its value before the
\* first of the two calls.
C2_ViewTwiceCountsOnce ==
    (IsTrackCall(lastCall) /\ lastCall.kind = "view"
        /\ lastCall.user_id # None /\ lastCall.repeated) =>
       SumField(lastCall.after, "views") <= SumField(lastCall.before_first, "views") + 1

\* C3 as stated: a view, click or conversion call of a user is skipped as a
\* duplicate iff a row of (offer, today) carries a user id, whichever user it
\* is; an anonymous call is never skipped and increments its counter.
C3_SkippedIffAnyUserOnRow ==
    (IsTrackCall(lastCall) /\ field_mapping(lastCall.kind) # NULL) =>
       IF lastCall.user_id # None
       THEN SkippedAsDuplicate(lastCall) <=> CarriesAnyUser(lastCall.before)
       ELSE /\ ~SkippedAsDuplicate(lastCall)
            /\ SumField(lastCall.after, field_mapping(lastCall.kind))
                 = SumField(lastCall.before, field_mapping(lastCall.kind)) + 1

\* C3 amended: a view, click or conversion call of a user is skipped as a
\* duplicate iff a row of (offer, today) carries that same user's id; an
\* anonymous call is never skipped and increments its counter.
C3_SkippedIffSameUserOnRow ==
    (IsTrackCall(lastCall) /\ field_mapping(lastCall.kind) # NULL) =>
       IF lastCall.user_id # None
       THEN SkippedAsDuplicate(lastCall) <=> CarriesUser(lastCall.before, lastCall.user_id)
       ELSE /\ ~SkippedAsDuplicate(lastCall)
            /\ SumField(lastCall.after, field_mapping(lastCall.kind))
                 = SumField(lastCall.before, field_mapping(lastCall.kind)) + 1

\* C3 witness: a click of the user the row carries is skipped
C3_Witness ==
    /\ IsTrackCall(lastCall) /\ lastCall.kind = "click"
    /\ lastCall.user_id # None
    /\ CarriesUser(lastCall.before, lastCall.user_id)
    /\ SkippedAsDuplicate(lastCall)

\* some row of rows has a positive counter for this conversion type
HasPositive(rows, conversion_type) ==
    \E i \in 1..Len(rows) : rows[i][conversion_field_mapping(conversion_type)] > 0

\* a row of rows carries this user and has a positive counter for the type
UserHasPositive(rows, user_id, conversion_type) ==
    \E i \in 1..Len(rows) :
        /\ rows[i].user_id = user_id
        /\ rows[i][conversion_field_mapping(conversion_type)] > 0

\* C4 as stated: a website, call or directions conversion of a user is skipped
\* as a duplicate iff the row of (offer, today) has a positive matching
\* counter, whichever user produced it.
C4_SkippedIffCounterPositive ==
    (IsConversionCall(lastCall) /\ lastCall.user_id # None
        /\ conversion_field_mapping(lastCall.kind) # NULL) =>
       (SkippedAsDuplicate(lastCall) <=> HasPositive(lastCall.before, lastCall.kind))

\* C4 amended: a website, call or directions conversion of a user is skipped
\* as a duplicate iff the row of (offer, today) carries that user's id and has
\* a positive matching counter.
C4_SkippedIffOwnRowCounterPositive ==
    (IsConversionCall(lastCall) /\ lastCall.user_id # None
        /\ conversion_field_mapping(lastCall.kind) # NULL) =>
       (SkippedAsDuplicate(lastCall)
           <=> UserHasPositive(lastCall.before, lastCall.user_id, lastCall.kind))

\* C4 witness: a call conversion of the user the row carries, with
\* conversion_calls already positive, is skipped
C4_Witness ==
    /\ IsConversionCall(lastCall) /\ lastCall.kind = "call"
    /\ lastCall.user_id # None
    /\ UserHasPositive(lastCall.before, lastCall.user_id, "call")
    /\ SkippedAsDuplicate(lastCall)

(***************************************************************************)
(* Claims about batch ingest (specification SpecBusiness).                  *)
(***************************************************************************)
RECURSIVE SumRows(_, _, _, _)
SumRows(tbl, business_id, day, field) ==
    IF tbl = <<>> THEN 0
    ELSE (IF MatchesBusinessDate(Head(tbl), business_id, day) THEN Head(tbl)[field] ELSE 0)
           + SumRows(Tail(tbl), business_id, day, field)

\* two business_analytics tables have a row for the same (business, date)
\* pairs, with the same total_views, total_clicks and total_conversions
SameAggregates(t1, t2) ==
    \A b \in BusinessIds, d \in Days :
        /\ ExistingBusinessRecord(t1, b, d) <=> ExistingBusinessRecord(t2, b, d)
        /\ \A f \in {"total_views", "total_clicks", "total_conversions"} :
               SumRows(t1, b, d, f) = SumRows(t2, b, d, f)

\* two analytics_events tables hold the same events, each as many times
SameEvents(e1, e2) ==
    \A e \in Events :
        Cardinality({i \in 1..Len(e1) : e1[i] = e}) = Cardinality({i \in 1..Len(e2) : e2[i] = e})

IsBatch(c) == c.op = "batch_track_events"

\* C5: a batch_track_events call leaves the same business_analytics rows and
\* totals as one track_event call per event of the list would have left,
\* starting from the same tables.
C5_BatchEqualsSingles ==
    IsBatch(lastBatch) => SameAggregates(business_analytics, lastBatch.single.business)

\* C6: a batch_track_events call leaves the same business_analytics totals and
\* the same stored events as two batch_track_events calls on the two parts of
\* the list would have left, wherever the list is cut.
C6_BatchEqualsTwoBatches ==
    IsBatch(lastBatch) =>
        /\ SameAggregates(business_analytics, lastBatch.halves.business)
        /\ SameEvents(analytics_events, lastBatch.halves.events)

(***************************************************************************)
(* Claims about the offer search (specification SpecSearch).                *)
(***************************************************************************)
IsSearch(c) == c.op = "search_offers_function"

ResultIds(c) == {c.result[i].id : i \in 1..Len(c.result)}

C8_Helsinki == <<"H", "e", "l", "s", "i", "n", "k", "i">>
C8_Tampere == <<"T", "a", "m", "p", "e", "r", "e">>

\* C8: with exactly the four eligible offers stored whose city is "Helsinki",
\* "koko maa", '["Espoo","Aura","Helsinki"]' and "Espoo,Aura,Helsinki"
\* (offers 1 to 4), a search by city "Helsinki" returns all four and a search
\* by city "Tampere" returns only the "koko maa" offer.
C8_CityExamples ==
    (IsSearch(lastSearch) /\ offers = {1, 2, 3, 4}
        /\ lastSearch.keywords = NoText /\ lastSearch.category = NoText) =>
       /\ lastSearch.city = C8_Helsinki => ResultIds(lastSearch) = {1, 2, 3, 4}
       /\ lastSearch.city = C8_Tampere => ResultIds(lastSearch) = {2}

\* C8 witness: the four offers are stored, the search is by city "Helsinki"
\* and four offers come back
C8_Witness ==
    /\ IsSearch(lastSearch) /\ offers = {1, 2, 3, 4}
    /\ lastSearch.keywords = NoText /\ lastSearch.category = NoText
    /\ lastSearch.city = C8_Helsinki
    /\ Len(lastSearch.result) = 4

\* the elements of a separated list, in order
RECURSIVE SplitOn(_, _)
SplitOn(str, sep) ==
    IF \E i \in 1..Len(str) : str[i] = sep
    THEN LET i == CHOOSE j \in 1..Len(str) :
                     str[j] = sep /\ \A k \in 1..(j - 1) : str[k] # sep
         IN  <<SubSeq(str, 1, i - 1)>> \o SplitOn(SubSeq(str, i + 1, Len(str)), sep)
    ELSE <<str>>

Unquoted(str) ==
    IF Len(str) >= 2 /\ str[1] = DQ /\ str[Len(str)] = DQ
    THEN SubSeq(str, 2, Len(str) - 1) ELSE str

\* the text is a comma-separated list with el as one whole element
ListHasElement(str, el) ==
    LET parts == SplitOn(str, ",")
    IN  \E i \in 1..Len(parts) : TRIM(parts[i]) = el

\* the text has the shape of a JSON array with el as one whole element
JsonArrayHasElement(str, el) ==
    /\ Len(str) >= 2 /\ str[1] = "[" /\ str[Len(str)] = "]"
    /\ LET parts == SplitOn(SubSeq(str, 2, Len(str) - 1), ",")
       IN  \E i \in 1..Len(parts) : Unquoted(TRIM(parts[i])) = el

\* the five alternatives of the specification
FiveWayOr(stored_city, city) ==
    LET c == TRIM(LOWER(stored_city))
        q == TRIM(LOWER(city))
    IN  \/ c = KokoMaa
        \/ c = q
        \/ ListHasElement(c, q)
        \/ JsonArrayHasElement(c, KokoMaa)
        \/ JsonArrayHasElement(c, q)

FiveWayOrTable ==
    [id \in CatalogueIds |-> [city \in QueryCities |-> FiveWayOr(offer_city(id), city)]]

\* C9: in a search by city, a stored offer that meets the other conditions of
\* the query is selected iff its city is "koko maa", or equals the query city,
\* or is a comma-separated list with the query city as a whole element, or is
\* a JSON array with "koko maa" or the query city as a whole element.
C9_CityFilterIsFiveWayOr ==
    (IsSearch(lastSearch) /\ lastSearch.city # NoText) =>
       \A id \in offers :
          (/\ status_filter(id, lastSearch.now)
           /\ (lastSearch.keywords # NoText => KeywordsFilterTable[id][lastSearch.keywords])
           /\ (lastSearch.category # NoText => CategoryFilterTable[id][lastSearch.category]))
          => (id \in lastSearch.matched <=> FiveWayOrTable[id][lastSearch.city])

(***************************************************************************)
(* Claims about the chat (specification SpecChat).                          *)
(***************************************************************************)
IsChat(c) == c.op = "process_chat_message"

\* the first response invoked search_offers and both model calls succeeded
SearchedAndAnswered(c) ==
    /\ IsChat(c)
    /\ c.first.kind = "message"
    /\ \E i \in 1..Len(c.first.tool_calls) : c.first.tool_calls[i].name = "search_offers"
    /\ Len(c.model_calls) = 2
    /\ c.second = "message"

\* C10: when the first response of the model invokes search_offers and both
\* model calls succeed, one search is made; if it returned no offer the second
\* prompt is the "couldn't find, suggest alternatives" template and the result
\* has no offers, and if it returned k > 0 offers the second prompt is the
\* "I found k offers" template and the result's offers are the k offers found.
C10_PromptFollowsSearch ==
    SearchedAndAnswered(lastChat) =>
        /\ Len(lastChat.searches) = 1
        /\ LET found == lastChat.searches[1].result
               prompt == lastChat.model_calls[2]
           IN  /\ Len(found) = 0 =>
                     /\ prompt.template = "not_found"
                     /\ lastChat.result.offers = <<>>
               /\ Len(found) > 0 =>
                     /\ prompt.template = "found"
                     /\ prompt.count = Len(found)
                     /\ Len(lastChat.result.offers) = Len(found)
                     /\ lastChat.result.offers = found

\* C10 witness: the search of a chat found offers and the call succeeded
C10_Witness ==
    /\ SearchedAndAnswered(lastChat)
    /\ Len(lastChat.searches) = 1
    /\ Len(lastChat.searches[1].result) > 0
    /\ lastChat.result.success

(***************************************************************************)
(* Claims about the daily quota (specification SpecQuota).                  *)
(***************************************************************************)
IsRequest(r) == r.op = "ai_chat"

Times(steps, name) == Cardinality({i \in 1..Len(steps) : steps[i] = name})

\* C11: a POST /ai-chat request answered with success has incremented the
\* usage counter of its user exactly once, after one model call (no tool call)
\* or two (one tool call): the counter is one more than before when the stored
\* date was today, the stored date is today, no other user's counter changed.
C11_OneIncrementPerSuccess ==
    (IsRequest(lastRequest) /\ lastRequest.response.status = 200) =>
        LET u == lastRequest.user_id
        IN  /\ Times(lastRequest.steps, "increment_ai_chat_usage") = 1
            /\ Times(lastRequest.steps, "model_call") = lastRequest.tool_calls + 1
            /\ lastRequest.before[u].date = lastRequest.date =>
                  lastRequest.after[u].count = lastRequest.before[u].count + 1
            /\ lastRequest.after[u].date = lastRequest.date
            /\ \A o \in UserIds \ {u} : lastRequest.after[o] = lastRequest.before[o]

\* C11 witness: a successful request with a tool call (two model turns) of a
\* user who had already chatted today
C11_Witness ==
    /\ IsRequest(lastRequest)
    /\ lastRequest.response.status = 200
    /\ Times(lastRequest.steps, "model_call") = 2
    /\ lastRequest.before[lastRequest.user_id].date = lastRequest.date
    /\ lastRequest.after[lastRequest.user_id].count = 2

(***************************************************************************)
(* Claims about the failures and the direct answers of the chat            *)
(* (specification SpecChat).                                               *)
(***************************************************************************)
\* the language a returned message is written in
MessageLanguage(message) ==
    CASE message = "AI service not available. Please try again later." -> "en"
      [] message = "Sorry, I'm having trouble right now. Please try again later." -> "en"
      [] message = "Anteeksi, minulla on teknisiä ongelmia. Yritä myöhemmin uudelleen." -> "fi"
      [] OTHER -> "model"

\* the call met an upstream failure: no client, an exception in the first
\* model call, in the parsing of the tool arguments or in the second model call
UpstreamFailure(c) ==
    /\ IsChat(c)
    /\ \/ c.model_calls = <<>>
       \/ c.first.kind = "error"
       \/ /\ FirstSearchCall(c.first.tool_calls) # 0
          /\ \/ ~c.first.tool_calls[FirstSearchCall(c.first.tool_calls)].arguments.valid
             \/ c.second = "error"

\* C12: on any upstream failure process_chat_message returns success false,
\* no offers (even when the search found some) and a fallback message in the
\* requested language: Finnish for 'fi', English for 'en'.
C12_FailureIsLocalized ==
    UpstreamFailure(lastChat) =>
        /\ lastChat.result.success = FALSE
        /\ lastChat.result.offers = <<>>
        /\ MessageLanguage(lastChat.result.message) = lastChat.language

\* C13: when the first response has no tool call, one model call is made, no
\* search is run, and the result is success with the text of the first
\* response and no offers.
C13_DirectAnswer ==
    (IsChat(lastChat) /\ lastChat.model_calls # <<>>
        /\ lastChat.first.kind = "message" /\ lastChat.first.tool_calls = <<>>) =>
        /\ Len(lastChat.model_calls) = 1
        /\ lastChat.searches = <<>>
        /\ lastChat.result.success = TRUE
        /\ lastChat.result.message = "message.content"
        /\ lastChat.result.offers = <<>>

\* C13 witness: a chat over a non-empty offers table answered without tool call
C13_Witness ==
    /\ IsChat(lastChat) /\ lastChat.model_calls # <<>>
    /\ lastChat.first.kind = "message" /\ lastChat.first.tool_calls = <<>>
    /\ offers # {}
    /\ lastChat.result.success

(***************************************************************************)
(* Claims about rejected requests and the daily reset (SpecQuota).          *)
(***************************************************************************)
Rejected(r) == r.response.status \in {400, 429}

\* C17: a POST /ai-chat request rejected before processing (message missing,
\* empty or longer than 150 characters, or daily limit reached) makes no model
\* call and changes no usage counter; every model call comes after the limit
\* check; the limit-exceeded response has status 429 and the numeric
\* dailyLimit; a request whose chat processing failed changes no counter.
C17_RejectedRequestsCostNothing ==
    IsRequest(lastRequest) =>
        /\ (\/ lastRequest.message.raw = 0 \/ lastRequest.message.stripped = 0
            \/ lastRequest.message.stripped > 150) =>
              lastRequest.response.status = 400
        /\ Rejected(lastRequest) =>
              /\ Times(lastRequest.steps, "model_call") = 0
              /\ lastRequest.after = lastRequest.before
        /\ \A i \in 1..Len(lastRequest.steps) :
              lastRequest.steps[i] = "model_call" =>
                 \E j \in 1..(i - 1) : lastRequest.steps[j] = "check_ai_chat_limit"
        /\ lastRequest.response.status = 429 =>
              /\ lastRequest.response.dailyLimit = lastRequest.daily_limit
              /\ lastRequest.response.dailyLimit \in Nat \ {0}
        /\ lastRequest.processed = "failed" =>
              /\ lastRequest.after = lastRequest.before
              /\ lastRequest.response.status = 500

\* C17 witness: a valid message refused because today's limit is reached
C17_Witness ==
    /\ IsRequest(lastRequest)
    /\ lastRequest.response.status = 429
    /\ lastRequest.user_id \in users
    /\ lastRequest.before[lastRequest.user_id].count >= lastRequest.daily_limit

\* the request passed validation, of a registered user
Checked(r) == IsRequest(r) /\ r.steps # <<>> /\ r.user_id \in users

Allowed(r) == r.response.status # 429

Incremented(r) == Times(r.steps, "increment_ai_chat_usage") = 1

\* C18: when the stored ai_chat_date of the user is null or not today, the
\* limit check allows the request whatever the stored count and the increment
\* that follows stores count 1 and today's date; when the stored date is
\* today, the check allows iff count < daily_limit and the increment adds 1.
C18_DailyReset ==
    Checked(lastRequest) =>
        LET b == lastRequest.before[lastRequest.user_id]
            a == lastRequest.after[lastRequest.user_id]
        IN  /\ (b.date = None \/ b.date # lastRequest.date) =>
                  /\ Allowed(lastRequest)
                  /\ Incremented(lastRequest) =>
                        a = [count |-> 1, date |-> lastRequest.date]
            /\ b.date = lastRequest.date =>
                  /\ Allowed(lastRequest) <=> b.count < lastRequest.daily_limit
                  /\ Incremented(lastRequest) =>
                        a = [count |-> b.count + 1, date |-> lastRequest.date]

\* C18 witness: a user who reached the limit yesterday chats again today
C18_Witness ==
    /\ Checked(lastRequest) /\ Incremented(lastRequest)
    /\ lastRequest.before[lastRequest.user_id].date # None
    /\ lastRequest.before[lastRequest.user_id].date # lastRequest.date
    /\ lastRequest.before[lastRequest.user_id].count >= lastRequest.daily_limit
    /\ lastRequest.after[lastRequest.user_id].count = 1

(***************************************************************************)
(* Claims about the tracking requests and calls (SpecRoutes).               *)
(***************************************************************************)
IsOp == lastOp # NoOp

BoolOps == {"track_offer_interaction", "track_conversion", "_update_business_analytics",
            "POST /tarjoukset/<id>/click", "POST /tarjoukset/<id>/conversion"}
NoneOps == {"POST /analytics/track", "track_business_conversion", "batch_track_events"}
RequestPaths == {"POST /analytics/track", "POST /tarjoukset/<id>/click",
                 "POST /tarjoukset/<id>/conversion"}

\* the tracking function of the operation was called and a step of it failed
StepFailed == IsOp /\ lastOp.failed # {} /\ lastOp.status # 404

\* C14 as stated: whenever any database step of track_offer_interaction,
\* track_conversion or _update_business_analytics fails the function returns
\* False; the other tracking functions return normally; a failed event insert
\* of track_event changes no business aggregate and POST /analytics/track
\* still reports success.
C14_AnyFailureReturnsFalse ==
    StepFailed =>
        /\ lastOp.op \in BoolOps => lastOp.ret = "False"
        /\ lastOp.op \in NoneOps => lastOp.ret = "None"
        /\ (lastOp.op = "POST /analytics/track" /\ "insert" \in lastOp.failed) =>
              (lastOp.after.business = lastOp.before.business /\ lastOp.status = 200)

\* C14 amended: no tracking operation raises; a failure of the row-ensuring
\* step, of the update step or of the offer lookup makes the three boolean
\* functions return False, while a failure inside the city lookup or the
\* duplicate check is swallowed there and tracking goes on as for a user
\* without city who was not tracked today (it may return True); the other
\* functions return None; a failed event insert of track_event changes no
\* business aggregate and POST /analytics/track still reports success.
C14_NoFailurePropagates ==
    IsOp =>
        /\ lastOp.ret \in {"True", "False", "None"}
        /\ (lastOp.op \in BoolOps
              /\ lastOp.failed \cap {"select_offer", "ensure_row", "update"} # {}) =>
              lastOp.ret = "False"
        /\ (lastOp.op \in {"POST /tarjoukset/<id>/click", "POST /tarjoukset/<id>/conversion"}
              /\ lastOp.status = 200 /\ lastOp.failed # {}
              /\ lastOp.failed \subseteq {"get_user_city", "dedup"}) =>
              /\ lastOp.ret = "True"
              /\ "dedup" \in lastOp.failed => lastOp.steps = <<"dedup", "increment">>
        /\ lastOp.op \in NoneOps => lastOp.ret = "None"
        /\ (lastOp.op = "POST /analytics/track" /\ "insert" \in lastOp.failed) =>
              (lastOp.after.business = lastOp.before.business /\ lastOp.status = 200)
        /\ lastOp.op \in RequestPaths => lastOp.status \in {200, 404}

\* track_offer_interaction whose update step failed
C14_Witness ==
    /\ IsOp
    /\ lastOp.op = "track_offer_interaction"
    /\ lastOp.failed = {"update"}
    /\ lastOp.ret = "False"

\* C16: in every request path an aggregate counter is incremented only after,
\* in the same request, the event was appended to analytics_events and the
\* duplicate check was then made.
C16_AppendDedupRollup ==
    (IsOp /\ lastOp.op \in RequestPaths) =>
        \A k \in 1..Len(lastOp.steps) :
            lastOp.steps[k] = "increment" =>
                \E i \in 1..k, j \in 1..k :
                    i < j /\ lastOp.steps[i] = "append" /\ lastOp.steps[j] = "dedup"

(***************************************************************************)
(* Claims about the life of the offer_analytics rows (SpecLifecycle).       *)
(***************************************************************************)
\* the rows of (offer, date) stay and none of their counters goes down
RowsKept(before, after, offer_id, day) ==
    ExistingRecord(before, offer_id, day) =>
        /\ ExistingRecord(after, offer_id, day)
        /\ \A field \in CounterFields :
              Counter(after, offer_id, day, field) >= Counter(before, offer_id, day, field)

\* C15: under track_offer_interaction, track_conversion and User.delete_user
\* an offer_analytics row for (offer, date) that exists in one state exists in
\* every later state and each of its counters is non-decreasing.
C15_RowsNeverDeleted ==
    [][\A offer_id \in OfferIds, day \in Days :
          RowsKept(offer_analytics, offer_analytics', offer_id, day)]_vars

(***************************************************************************)
(* Claims about the asynchronous batch ingest (SpecPool, SpecPoolFair).     *)
(***************************************************************************)
\* the submissions made so far
Submissions == 1..Len(submitted)

\* every call returned normally, its batch is waiting, running or processed,
\* at most 2 batches are running, and only submitted batches are anywhere
PoolIsSound ==
    /\ \A id \in Submissions :
          /\ submitted[id].returned = "None"
          /\ tasks[id].pc \in {"queued"} \cup RunningSteps \cup {"done"}
          /\ tasks[id].pc = "queued" <=> \E i \in 1..Len(work_queue) : work_queue[i] = id
    /\ \A id \in BatchIds \ Submissions : tasks[id].pc = "none"
    /\ Cardinality(Running(tasks)) <= 2

\* a submitted batch stays submitted and a processed batch stays processed
TasksAdvance ==
    \A id \in BatchIds :
        /\ tasks[id].pc # "none" => tasks'[id].pc # "none"
        /\ tasks[id].pc = "done" => tasks'[id].pc = "done"

\* C19: batch_track_events_async returns without waiting and never raises,
\* whatever the batch and whatever happens to it; at most 2 batches are being
\* processed at any time; a batch submitted while both workers are busy is
\* queued, never dropped; and every submitted batch is eventually processed
\* (each batch is again and again either not submitted or processed, and by
\* TasksAdvance a submitted batch is then processed from some point on).
C19_FireAndForget ==
    /\ []PoolIsSound
    /\ [][TasksAdvance]_vars
    /\ \A id \in BatchIds : []<>(tasks[id].pc \in {"none", "done"})

\* a batch was submitted and queued while both workers were busy
C19_Witness ==
    /\ Len(submitted) = 3
    /\ Cardinality(Running(tasks)) = 2
    /\ work_queue = <<3>>

\* the tallies of a batch for business 1
BatchTally(id, event_type) == business_stats(submitted[id].events, offers, 1, event_type)

TouchesBusiness1(id) ==
    \E event_type \in {"view", "click", "conversion"} : BatchTally(id, event_type) > 0

\* C20: when two batches that touch the same business on the same day have
\* run on the two workers, in whatever interleaving, business_analytics has
\* exactly one row for that (business, date) and its total_views,
\* total_clicks and total_conversions are the initial values plus the two
\* batches' tallies.
C20_CommutativeSums ==
    (/\ Len(submitted) = 2
     /\ \A id \in 1..2 : TouchesBusiness1(id) /\ tasks[id].pc = "done") =>
        LET rows == SelectSeq(business_analytics, LAMBDA r : MatchesBusinessDate(r, 1, today))
            initial == SelectSeq(initial_rows, LAMBDA r : MatchesBusinessDate(r, 1, today))
            Initial(field) == IF initial = <<>> THEN 0 ELSE initial[1][field]
        IN  /\ Len(rows) = 1
            /\ rows[1].total_views = Initial("total_views") + BatchTally(1, "view")
                                        + BatchTally(2, "view")
            /\ rows[1].total_clicks = Initial("total_clicks") + BatchTally(1, "click")
                                        + BatchTally(2, "click")
            /\ rows[1].total_conversions = Initial("total_conversions")
                                        + BatchTally(1, "conversion")
                                        + BatchTally(2, "conversion")

(***************************************************************************)
(* Further claims about the offer_analytics calls (specification Spec).     *)
(***************************************************************************)
\* the user and the city of a row stay once they are set; a user appears on a
\* row that had none only through a call of that user on the row's offer
FirstWriterStays ==
    \A i \in 1..Len(offer_analytics) :
        /\ i <= Len(offer_analytics')
        /\ offer_analytics[i].user_id # None =>
              offer_analytics'[i].user_id = offer_analytics[i].user_id
        /\ offer_analytics[i].user_city # NULL =>
              offer_analytics'[i].user_city = offer_analytics[i].user_city
        /\ (offer_analytics[i].user_id = None /\ offer_analytics'[i].user_id # None) =>
              /\ lastCall'.user_id = offer_analytics'[i].user_id
              /\ lastCall'.offer_id = offer_analytics[i].offer_id
              /\ lastCall'.date = offer_analytics[i].date

\* C23: under track_offer_interaction and track_conversion calls the user_id
\* and the user_city of an aggregate row never change once they are non-null,
\* and a null user_id is filled only by a call that carries that user_id.
C23_FirstWriterWins == [][FirstWriterStays]_vars

\* C23 witness: a counted call of another user left the row's user as it was
C23_Witness ==
    /\ lastCall # NoCall
    /\ lastCall.user_id # None /\ ~lastCall.skipped /\ lastCall.ret = TRUE
    /\ Len(lastCall.before) = 1 /\ Len(lastCall.after) = 1
    /\ lastCall.before[1].user_id # None
    /\ lastCall.before[1].user_id # lastCall.user_id
    /\ lastCall.after[1].user_id = lastCall.before[1].user_id

TypedKinds == {"website", "call", "directions"}
SpecificCounters == {"conversion_website", "conversion_calls", "conversion_directions"}

Unchanged(c, fields) ==
    \A field \in fields : SumField(c.after, field) = SumField(c.before, field)

\* C25: a track_conversion call that is not skipped, of kind website, call or
\* directions, adds 1 to the matching counter and 1 to conversions and leaves
\* views, clicks and the two other specific counters; a call of another kind
\* returns False and changes no counter.
C25_TypedConversionChangesTwoCounters ==
    (IsConversionCall(lastCall) /\ ~lastCall.skipped) =>
        IF lastCall.kind \in TypedKinds
        THEN LET field == conversion_field_mapping(lastCall.kind) IN
             /\ lastCall.ret = TRUE
             /\ SumField(lastCall.after, field) = SumField(lastCall.before, field) + 1
             /\ SumField(lastCall.after, "conversions")
                  = SumField(lastCall.before, "conversions") + 1
             /\ Unchanged(lastCall, {"views", "clicks"} \cup (SpecificCounters \ {field}))
        ELSE /\ lastCall.ret = FALSE
             /\ Unchanged(lastCall, CounterFields)

\* C25 witness: a call conversion counted on a row that had counts already
C25_Witness ==
    /\ IsConversionCall(lastCall) /\ ~lastCall.skipped /\ lastCall.kind = "call"
    /\ SumField(lastCall.before, "conversions") >= 1
    /\ SumField(lastCall.after, "conversion_calls") = 1

\* C26: on every offer_analytics row conversions is at least the sum of the
\* three specific conversion counters, and the difference is the number of
\* accepted generic conversion interactions on that (offer, date).
C26_ConversionsCoverTyped ==
    \A i \in 1..Len(offer_analytics) :
        LET r == offer_analytics[i]
            typed == r.conversion_calls + r.conversion_directions + r.conversion_website
        IN  /\ r.conversions >= typed
            /\ r.conversions - typed = accepted[<<r.offer_id, r.date>>]["conversion"]

\* C26 witness: a row with a generic and two typed conversions
C26_Witness ==
    \E i \in 1..Len(offer_analytics) :
        /\ offer_analytics[i].conversions = 3
        /\ offer_analytics[i].conversion_website = 1
        /\ offer_analytics[i].conversion_calls = 1

\* C27: once a user's id is on the (offer, today) row, every later
\* track_offer_interaction of that user on that offer that day, of any kind,
\* returns True and leaves all counters as they were.
C27_DedupIgnoresKind ==
    (IsTrackCall(lastCall) /\ lastCall.user_id # None
        /\ CarriesUser(lastCall.before, lastCall.user_id)) =>
       /\ lastCall.ret = TRUE
       /\ lastCall.after = lastCall.before

\* C27 witness: after the user's counted view the user's first click is not counted
C27_Witness ==
    /\ IsTrackCall(lastCall) /\ lastCall.kind = "click" /\ lastCall.user_id # None
    /\ CarriesUser(lastCall.before, lastCall.user_id)
    /\ SumField(lastCall.before, "views") = 1
    /\ SumField(lastCall.after, "clicks") = 0
    /\ lastCall.ret = TRUE

(***************************************************************************)
(* Further claims about AIChat.process_chat_message (SpecChat).             *)
(***************************************************************************)
\* the positions of the tool calls named search_offers
SearchPositions(tool_calls) ==
    {i \in 1..Len(tool_calls) : tool_calls[i].name = "search_offers"}

\* C30: with a client, when the first response has tool calls none of which
\* is named search_offers, no search and no second model call are made and the
\* result is the failure result; when there are several tool calls only the
\* first one named search_offers is executed; a request makes at most one
\* search and at most two model calls.
C30_OnlyFirstSearchCall ==
    (IsChat(lastChat) /\ openai_client) =>
        LET tool_calls == lastChat.first.tool_calls
            positions == SearchPositions(tool_calls)
        IN  /\ Len(lastChat.searches) <= 1
            /\ Len(lastChat.model_calls) <= 2
            /\ (lastChat.first.kind = "message" /\ tool_calls # <<>> /\ positions = {}) =>
                  /\ lastChat.searches = <<>>
                  /\ Len(lastChat.model_calls) = 1
                  /\ lastChat.result = error_result(lastChat.language)
                  /\ lastChat.result.success = FALSE
                  /\ lastChat.result.offers = <<>>
                  /\ lastChat.result.message # direct_answer.message
            /\ lastChat.searches # <<>> =>
                  \E i \in positions :
                      /\ \A j \in positions : i <= j
                      /\ lastChat.searches[1].arguments
                           = with_user_city(tool_calls[i].arguments, lastChat.user_city)

\* C30 witness: two search_offers calls for different cities, the first one
\* was executed
C30_Witness ==
    /\ IsChat(lastChat) /\ openai_client
    /\ Len(lastChat.first.tool_calls) = 2
    /\ SearchPositions(lastChat.first.tool_calls) = {1, 2}
    /\ lastChat.first.tool_calls[1].arguments.valid
    /\ lastChat.first.tool_calls[2].arguments.valid
    /\ lastChat.first.tool_calls[1].arguments.city # lastChat.first.tool_calls[2].arguments.city
    /\ lastChat.first.tool_calls[1].arguments.city # NoText
    /\ Len(lastChat.searches) = 1
    /\ lastChat.searches[1].arguments.city = lastChat.first.tool_calls[1].arguments.city

\* a first response with tool calls and no search among them fails
C30_NoSearchCall ==
    /\ IsChat(lastChat) /\ openai_client
    /\ lastChat.first.kind = "message"
    /\ Len(lastChat.first.tool_calls) = 2
    /\ SearchPositions(lastChat.first.tool_calls) = {}
    /\ ~lastChat.result.success

(***************************************************************************)
(* Further claims about the tracking requests and calls (SpecRoutes).       *)
(***************************************************************************)
TrackingFunctions == {"POST /analytics/track", "track_business_conversion",
                      "batch_track_events", "_update_business_analytics",
                      "track_offer_interaction", "track_conversion"}

\* C21: a tracking operation for an offer_id that is not in the offer store
\* returns without raising and creates or modifies no row of offer_analytics
\* or business_analytics.
C21_UnknownOfferIsNoOp ==
    (IsOp /\ lastOp.op \in TrackingFunctions /\ UnknownOffer \in lastOp.offer_ids) =>
        /\ lastOp.ret \in {"True", "False", "None"}
        /\ lastOp.after.offer = lastOp.before.offer
        /\ lastOp.after.business = lastOp.before.business

\* the business functions do leave the tables as they were (not claimed
\* wrongly for them)
C21_BusinessFunctionsNoOp ==
    (IsOp /\ lastOp.op \in TrackingFunctions \ {"track_offer_interaction", "track_conversion"}
          /\ UnknownOffer \in lastOp.offer_ids) =>
        /\ lastOp.ret \in {"False", "None"}
        /\ lastOp.after.offer = lastOp.before.offer
        /\ lastOp.after.business = lastOp.before.business

BusinessFunctions == {"POST /analytics/track", "track_business_conversion",
                      "batch_track_events", "_update_business_analytics"}

\* the rows of business_analytics the operation created or changed
TouchedRows(op) ==
    {i \in 1..Len(op.after.business) :
        i > Len(op.before.business) \/ op.after.business[i] # op.before.business[i]}

\* C24: after a tracking operation that creates or updates a
\* business_analytics row of (business, today), that row's active_offers is
\* the number of the business's approved, unexpired offers.
C24_ActiveOffersRecomputed ==
    (IsOp /\ lastOp.op \in BusinessFunctions) =>
        \A i \in TouchedRows(lastOp) :
            lastOp.after.business[i].active_offers
                = ActiveOffers(offers, today, lastOp.after.business[i].business_id)

\* where a counter is incremented one by one the count is recomputed
C24_RecomputedWithIncrement ==
    (IsOp /\ lastOp.op \in BusinessFunctions \ {"batch_track_events"}
          /\ lastOp.steps # <<>> /\ lastOp.steps[Len(lastOp.steps)] = "increment") =>
        \A i \in TouchedRows(lastOp) :
            lastOp.after.business[i].active_offers
                = ActiveOffers(offers, today, lastOp.after.business[i].business_id)

(***************************************************************************)
(* Claims about concurrent track_offer_interaction calls (SpecRace).        *)
(***************************************************************************)
\* the calls that have run the INSERT with success
Inserted == {id \in CallIds : track_calls[id].inserted}

\* C22: a call whose SELECT found no row runs the INSERT whatever the other
\* calls did since, so that every such INSERT that goes through adds a row
\* of its own for the same (offer, date): the rows added are as many as the
\* INSERTs that went through, and two concurrent first events can leave two.
C22_RowCreationRace ==
    /\ \A id \in CallIds :
          (track_calls[id].pc \in {"update", "done"} /\ ~track_calls[id].skipped
              /\ ~track_calls[id].existing_record) => track_calls[id].attempted
    /\ \A id \in CallIds : track_calls[id].attempted => ~track_calls[id].existing_record
    /\ Inserted # {} =>
          Len(RowsOf(offer_analytics, RaceOffer, today)) = Cardinality(Inserted)

\* C22 witness: two anonymous views, both first events: both saw no row and
\* both inserted one
C22_Witness ==
    /\ \A id \in 1..2 :
          /\ track_calls[id].pc = "done" /\ track_calls[id].user_id = None
          /\ track_calls[id].event_type = "view"
          /\ ~track_calls[id].existing_record /\ track_calls[id].inserted
    /\ Len(RowsOf(offer_analytics, RaceOffer, today)) = 2

\* the views of the offer today
ViewsTotal == Counter(offer_analytics, RaceOffer, today, "views")

\* the view calls of the user that passed the duplicate check and returned True
CountedViews(user_id) ==
    {id \in CallIds : /\ track_calls[id].pc = "done" /\ track_calls[id].user_id = user_id
                      /\ track_calls[id].event_type = "view"
                      /\ ~track_calls[id].skipped /\ track_calls[id].ret = "True"}

\* C28: every view call of a user that passed the duplicate check and went
\* on to its UPDATE adds at least one view, however many calls of that user
\* passed the check: concurrent calls of one user can add 2 views.
C28_CheckAndIncrementNotAtomic ==
    \A user_id \in RaceUsers \ {None} :
        ViewsTotal >= Cardinality(CountedViews(user_id))

\* C28 witness: two views of the same user, no row of the user at the start,
\* both passed the check and the views total grew by 2
C28_Witness ==
    /\ CountedViews(1) = {1, 2}
    /\ ViewsTotal = 2
    /\ Len(RowsOf(offer_analytics, RaceOffer, today)) = 1

(***************************************************************************)
(* Claims about concurrent POST /ai-chat requests (SpecQuotaRace).          *)
(***************************************************************************)
\* C29: with a constant daily limit L, in every interleaving of the requests
\* of one user on one day the user's ai_chat_count never exceeds L and at
\* most L requests get a successful response.
C29_DailyLimitBound ==
    LET L == get_chat_limit(openai_client, chat_limit) IN
    /\ ai_chat_usage[RaceUser].count <= L
    /\ Cardinality({id \in RequestIds : requests[id].status = 200}) <= L

====
